---- MODULE Spec2Model ----
(***************************************************************************)
(* Model of flysight2csv: the single-pass FlySight 2 CSV parser           *)
(* (parser.py), its error gate and timestamp reconciliation, and the      *)
(* merge of parsed results (parsed.py).                                    *)
(*                                                                         *)
(* Conventions                                                             *)
(*   - a datetime is an integer number of milliseconds since the GPS       *)
(*     epoch 1980-01-06T00:00:00, a timedelta an integer number of ms;     *)
(*   - Optional[x] is None == <<>> or Some(x) == <<x>>;                    *)
(*   - a dict is a function whose DOMAIN is its key set;                   *)
(*   - a physical line is the sequence of its comma separated tokens,      *)
(*     every token a string (a blank line is <<"">>);                      *)
(*   - a decoded scalar is a record [k, n, s]: k is "int", "float" or      *)
(*     "str", n the number in thousandths, s the raw text of a string.     *)
(***************************************************************************)
EXTENDS Integers, Sequences, FiniteSets, TLC

VARIABLES options, file_kind, line_count, line, first_line, parser, twin,
          left, right, sort_by_timestamp, allow_vars_mismatch, merged, merged_ids,
          program, selection

vars == <<options, file_kind, line_count, line, first_line, parser, twin,
          left, right, sort_by_timestamp, allow_vars_mismatch, merged, merged_ids,
          program, selection>>

----------------------------------------------------------------------------
(* Bounds of the model *)

MaxFreeLines == 3

MaxMergeRows == 3

MaxHeaderLines == 4

MaxBatchFiles == 3

----------------------------------------------------------------------------
(* Generic helpers *)

None == <<>>

Some(x) == <<x>>

IsSome(o) == o # <<>>

EmptyDict == <<>>

Put(d, key, value) ==
    [x \in (DOMAIN d) \cup {key} |-> IF x = key THEN value ELSE d[x]]

Range(s) == {s[i] : i \in DOMAIN s}

----------------------------------------------------------------------------
(* Program constants *)

GPS_START_DATE == 0

MsPerWeek == 604800000

TIME_COL == "time"

EXPECTED_HEADER == <<"$FLYS", "1">>

ROW_COL == "$COL"

ROW_DATA == "$DATA"

ROW_UNIT == "$UNIT"

ROW_VAR == "$VAR"

ROW_TIME == "$TIME"

display_path == "SENSOR.CSV"

----------------------------------------------------------------------------
(* Text primitives, tabulated over the strings that occur in the inputs *)

\* the record type names a line type may carry after its "$" prefix
TagNames == {"FLYS", "VAR", "COL", "UNIT", "DATA", "TIME", "VBAT", "GNSS", "IMU", "BARO"}

\* LINE_TYPE_PATTERN = ^\$[A-Z]+$ : a "$" followed by upper case letters only
LINE_TYPE_PATTERN(line_type) == \E name \in TagNames : line_type = "$" \o name

\* line_type[0] != '$'
FirstCharIsNotDollar(line_type) == ~ \E name \in TagNames : line_type = "$" \o name

\* str.removeprefix('$')
removeprefix(line_type) ==
    IF \E name \in TagNames : line_type = "$" \o name
    THEN CHOOSE name \in TagNames : line_type = "$" \o name
    ELSE line_type

\* the integer literals of the inputs, in thousandths
IntLiterals == {"0", "1", "2", "3", "4", "10", "11", "20", "6", "604799"}

IntOf(s) ==
    CASE s = "0" -> 0
      [] s = "1" -> 1000
      [] s = "2" -> 2000
      [] s = "3" -> 3000
      [] s = "4" -> 4000
      [] s = "6" -> 6000
      [] s = "10" -> 10000
      [] s = "11" -> 11000
      [] s = "20" -> 20000
      [] s = "604799" -> 604799000

\* the literals with a decimal point that float() accepts, in thousandths
FloatLiterals == {"2.5", "3.7", "38.5", "1.0"}

FloatOf(s) ==
    CASE s = "2.5" -> 2500
      [] s = "3.7" -> 3700
      [] s = "38.5" -> 38500
      [] s = "1.0" -> 1000

\* '.' in value
HasDot(s) ==
    s \in FloatLiterals \cup {"1980-01-06T00:00:05.100Z", "1980-01-06T00:00:28.-001Z"}

IntV(n) == [k |-> "int", n |-> n, s |-> ""]

FloatV(n) == [k |-> "float", n |-> n, s |-> ""]

StrV(s) == [k |-> "str", n |-> 0, s |-> s]

\* Parser._convert_type: float() if the text has a '.', else int(); the raw
\* string when the conversion raises ValueError
_convert_type(value) ==
    IF HasDot(value)
    THEN IF value \in FloatLiterals THEN FloatV(FloatOf(value)) ELSE StrV(value)
    ELSE IF value \in IntLiterals THEN IntV(IntOf(value)) ELSE StrV(value)

\* timedelta(seconds=x) for a number x
timedelta_seconds(v) == v.n

\* timedelta(weeks=w) for an integer w (in thousandths)
timedelta_weeks(n) == (n \div 1000) * MsPerWeek

\* the alphabetical order sorted() puts the column names in
ColumnOrder == <<"lat", "time", "tow", "voltage", "week">>

\* repr() of a list of strings, e.g. ['tow', 'week']
RECURSIVE ReprTail(_)
ReprTail(names) ==
    IF names = <<>> THEN "]"
    ELSE ", '" \o Head(names) \o "'" \o ReprTail(Tail(names))

ReprList(names) ==
    IF names = <<>> THEN "[]"
    ELSE "['" \o Head(names) \o "'" \o ReprTail(Tail(names))

----------------------------------------------------------------------------
(* selection.py: StringSelection *)

\* str.lower() on the strings a selection is asked about
Lower(s) ==
    CASE s = "A" -> "a"
      [] s = "B" -> "b"
      [] OTHER -> s

\* the strings a regular expression matches from their start (re.match)
RegexMatch(regex, s) ==
    CASE regex = ".*" -> TRUE
      [] regex = "Missing columns" ->
            s \in {"Missing columns: ['voltage'])", "Missing columns: ['tow', 'week'])",
                   "Missing columns: ['week'])"}
      [] regex = "No \\$TIME rows" -> s = "No $TIME rows available to fix timestamps."
      [] OTHER -> s = regex

\* the class attribute StringSelection.case_insensitive, the default of the
\* dataclass field: compile_patterns is a classmethod, so the object it reads
\* case_insensitive from is the class and never the instance
StringSelection_case_insensitive == FALSE

\* StringSelection.compile_patterns: each pattern with the flag it is
\* compiled with
compile_patterns(patterns) ==
    {[pattern |-> x, ignorecase |-> StringSelection_case_insensitive] : x \in patterns}

\* Pattern.match of a compiled pattern
Pattern_match(x, s) ==
    IF x.ignorecase THEN RegexMatch(Lower(x.pattern), Lower(s))
    ELSE RegexMatch(x.pattern, s)

\* StringSelection._normalize
_normalize(case_insensitive, string) ==
    IF case_insensitive THEN Lower(string) ELSE string

\* StringSelection.__init__: the values are normalized and the patterns
\* compiled; a filter that is not given stays None
StringSelection(args) ==
    [case_insensitive |-> args.case_insensitive,
     exclude_values |->
        IF args.exclude_values = None THEN None
        ELSE Some({_normalize(args.case_insensitive, x) : x \in args.exclude_values[1]}),
     include_values |->
        IF args.include_values = None THEN None
        ELSE Some({_normalize(args.case_insensitive, x) : x \in args.include_values[1]}),
     exclude_patterns |->
        IF args.exclude_patterns = None THEN None
        ELSE Some(compile_patterns(args.exclude_patterns[1])),
     include_patterns |->
        IF args.include_patterns = None THEN None
        ELSE Some(compile_patterns(args.include_patterns[1]))]

\* StringSelection.__bool__: any of the four filters is set
SelectionBool(sel) ==
    \/ IsSome(sel.exclude_values)
    \/ IsSome(sel.include_values)
    \/ IsSome(sel.exclude_patterns)
    \/ IsSome(sel.include_patterns)

matches_include_wins(sel, string) ==
    LET column == IF sel.case_insensitive THEN Lower(string) ELSE string IN
    IF IsSome(sel.include_values) /\ column \in sel.include_values[1] THEN TRUE
    ELSE IF IsSome(sel.exclude_values) /\ column \in sel.exclude_values[1] THEN FALSE
    ELSE IF IsSome(sel.include_values) /\ column \notin sel.include_values[1] THEN FALSE
    ELSE IF IsSome(sel.exclude_patterns)
            /\ \E x \in sel.exclude_patterns[1] : Pattern_match(x, column) THEN FALSE
    ELSE IF IsSome(sel.include_patterns)
            /\ ~ \E x \in sel.include_patterns[1] : Pattern_match(x, column) THEN FALSE
    ELSE TRUE

\* StringSelection.matches
matches(sel, string) ==
    LET column == IF sel.case_insensitive THEN Lower(string) ELSE string IN
    IF IsSome(sel.exclude_values) /\ column \in sel.exclude_values[1] THEN FALSE
    ELSE IF IsSome(sel.include_values) /\ column \notin sel.include_values[1] THEN FALSE
    ELSE IF IsSome(sel.exclude_patterns)
            /\ \E x \in sel.exclude_patterns[1] : Pattern_match(x, column) THEN FALSE
    ELSE IF IsSome(sel.include_patterns)
            /\ ~ \E x \in sel.include_patterns[1] : Pattern_match(x, column) THEN FALSE
    ELSE TRUE

\* StringSelection(include_patterns=patterns)
IncludePatterns(patterns) ==
    StringSelection([case_insensitive |-> FALSE, exclude_values |-> None,
                     include_values |-> None, exclude_patterns |-> None,
                     include_patterns |-> Some(patterns)])

----------------------------------------------------------------------------
(* parser.py: construction *)

\* Parser.__init__: CSVMeta(), ParsedCSV(meta), ParserState().  The fields
\* of the three objects are kept in one record; times_are_invalid and
\* warnings are the names parser.py uses for the fields that ParsedCSV
\* declares as could_not_fix_time and format_errors.  status is the position
\* of the call of parse: "new", "parsing", "returned", or the exception that
\* left it
NewParser ==
    [vars |-> EmptyDict,
     columns |-> EmptyDict,
     units |-> EmptyDict,
     is_flysight2_file |-> FALSE,
     complete_header |-> FALSE,
     rows |-> <<>>,
     times_are_invalid |-> FALSE,
     warnings |-> <<>>,
     current_offset_datetime |-> None,
     current_line_number |-> None,
     warned_messages |-> {},
     ignored_messages |-> <<>>,
     status |-> "new"]

\* an exception leaves the call: the parser keeps what it had mutated
Raise(p, exception) == [p EXCEPT !.status = exception]

Running(p) == p.status = "parsing"

----------------------------------------------------------------------------
(* parser.py: the error gate *)

\* the ignore-matcher of the options suppresses the message
IgnoredByMatcher(o, message) ==
    /\ IsSome(o.ignored_errors)
    /\ SelectionBool(o.ignored_errors[1])
    /\ matches(o.ignored_errors[1], message)

\* _error_if without the return that follows the append to the ignored list:
\* a suppressed message falls through to the diagnostics as well
_error_if_falls_through(o, p, condition, message) ==
    IF ~condition THEN p
    ELSE IF message \in p.warned_messages THEN p
    ELSE LET q == [p EXCEPT !.warned_messages = @ \cup {message}]
             w == [path |-> display_path, line |-> q.current_line_number,
                   message |-> message]
         IN  IF o.ignore_all_errors \/ IgnoredByMatcher(o, message)
             THEN [q EXCEPT !.ignored_messages = Append(@, message),
                            !.warnings = Append(@, w)]
             ELSE [q EXCEPT !.warnings = Append(@, w)]

\* _error_if without the test of warned_messages: a message is recorded
\* again each time its condition recurs
_error_if_no_dedup(o, p, condition, message) ==
    IF ~condition THEN p
    ELSE LET q == [p EXCEPT !.warned_messages = @ \cup {message}] IN
         IF o.ignore_all_errors \/ IgnoredByMatcher(o, message)
         THEN [q EXCEPT !.ignored_messages = Append(@, message)]
         ELSE [q EXCEPT !.warnings =
                  Append(@, [path |-> display_path,
                             line |-> q.current_line_number,
                             message |-> message])]

\* Parser._error_if; it returns the truth of the condition in every branch
_error_if(o, p, condition, message) ==
    IF ~condition THEN p
    ELSE IF message \in p.warned_messages THEN p
    ELSE LET q == [p EXCEPT !.warned_messages = @ \cup {message}] IN
         IF o.ignore_all_errors
         THEN [q EXCEPT !.ignored_messages = Append(@, message)]
         ELSE IF IgnoredByMatcher(o, message)
         THEN [q EXCEPT !.ignored_messages = Append(@, message)]
         ELSE [q EXCEPT !.warnings =
                  Append(@, [path |-> display_path,
                             line |-> q.current_line_number,
                             message |-> message])]

----------------------------------------------------------------------------
(* parser.py: the header section *)

\* the units dict after the loop of the $UNIT branch has zipped the first
\* n units onto the columns of row_type (setdefault, then item assignment)
ZipUnits(old_units, row_type, columns, units, n) ==
    IF n = 0 THEN old_units
    ELSE LET before == IF row_type \in DOMAIN old_units THEN old_units[row_type]
                       ELSE EmptyDict
             named == {columns[i] : i \in 1..n}
             last(c) == CHOOSE i \in 1..n :
                           /\ columns[i] = c
                           /\ \A j \in 1..n : columns[j] = c => j <= i
             after == [c \in (DOMAIN before) \cup named |->
                          IF c \in named THEN units[last(c)] ELSE before[c]]
         IN  Put(old_units, row_type, after)

\* _process_header_line with a message for a tag out of place that does not
\* name the tag
_process_header_line_untagged(o, p, line_type, row_fields) ==
    IF line_type = ROW_VAR
    THEN IF Len(row_fields) # 2
         THEN Raise(p, "ValueError")
         ELSE [p EXCEPT !.vars = Put(@, row_fields[1], row_fields[2])]
    ELSE IF line_type = ROW_COL
    THEN IF Len(row_fields) = 0
         THEN Raise(p, "ValueError")
         ELSE [p EXCEPT !.columns = Put(@, Head(row_fields), Tail(row_fields))]
    ELSE IF line_type = ROW_UNIT
    THEN IF Len(row_fields) = 0
         THEN Raise(p, "ValueError")
         ELSE LET row_type == Head(row_fields)
                  units == Tail(row_fields)
                  undeclared == row_type \notin DOMAIN p.columns
                  p1 == _error_if(o, p, undeclared, "Unit for non-existing " \o row_type)
              IN  IF undeclared THEN p1
                  ELSE LET columns == p.columns[row_type]
                           n == IF Len(units) <= Len(columns) THEN Len(units)
                                ELSE Len(columns)
                           p2 == [p1 EXCEPT !.units = ZipUnits(@, row_type, columns, units, n)]
                       IN  IF Len(units) > Len(columns) THEN Raise(p2, "IndexError")
                           ELSE p2
    ELSE IF line_type = ROW_DATA
    THEN LET p1 == _error_if(o, p, p.complete_header, "Duplicate " \o ROW_DATA \o " line.")
             p2 == _error_if(o, p1, row_fields # <<>>,
                             "Unexpected " \o ROW_DATA \o " line with fields.")
         IN  [p2 EXCEPT !.complete_header = TRUE]
    ELSE _error_if(o, p, TRUE, "Unexpected line before " \o ROW_DATA)

\* Parser._process_header_line
_process_header_line(o, p, line_type, row_fields) ==
    IF line_type = ROW_VAR
    THEN IF Len(row_fields) # 2
         THEN Raise(p, "ValueError")
         ELSE [p EXCEPT !.vars = Put(@, row_fields[1], row_fields[2])]
    ELSE IF line_type = ROW_COL
    THEN IF Len(row_fields) = 0
         THEN Raise(p, "ValueError")
         ELSE [p EXCEPT !.columns = Put(@, Head(row_fields), Tail(row_fields))]
    ELSE IF line_type = ROW_UNIT
    THEN IF Len(row_fields) = 0
         THEN Raise(p, "ValueError")
         ELSE LET row_type == Head(row_fields)
                  units == Tail(row_fields)
                  undeclared == row_type \notin DOMAIN p.columns
                  p1 == _error_if(o, p, undeclared, "Unit for non-existing " \o row_type)
              IN  IF undeclared THEN p1
                  ELSE LET columns == p.columns[row_type]
                           n == IF Len(units) <= Len(columns) THEN Len(units)
                                ELSE Len(columns)
                           p2 == [p1 EXCEPT !.units = ZipUnits(@, row_type, columns, units, n)]
                       IN  IF Len(units) > Len(columns) THEN Raise(p2, "IndexError")
                           ELSE p2
    ELSE IF line_type = ROW_DATA
    THEN LET p1 == _error_if(o, p, p.complete_header, "Duplicate " \o ROW_DATA \o " line.")
             p2 == _error_if(o, p1, row_fields # <<>>,
                             "Unexpected " \o ROW_DATA \o " line with fields.")
         IN  [p2 EXCEPT !.complete_header = TRUE]
    ELSE _error_if(o, p, TRUE, "Unexpected '" \o line_type \o "' before " \o ROW_DATA)

----------------------------------------------------------------------------
(* parser.py: timestamps *)

\* the absolute time texts of the inputs that carry the firmware's ".-"
NegativeAfterDecimalPoint(time_value) == time_value = "1980-01-06T00:00:28.-001Z"

\* time_value.replace('.-', '.')
StripSign(time_value) ==
    IF time_value = "1980-01-06T00:00:28.-001Z" THEN "1980-01-06T00:00:28.001Z"
    ELSE time_value

\* the texts datetime.strptime(..., '%Y-%m-%dT%H:%M:%S.%fZ') accepts
StrptimeAccepts(text) ==
    text \in {"1980-01-06T00:00:05.100Z", "1980-01-06T00:00:28.001Z"}

\* the instant strptime returns, and its microsecond field (here in ms)
Strptime(text) ==
    CASE text = "1980-01-06T00:00:05.100Z" -> [instant |-> 5100, fraction |-> 100]
      [] text = "1980-01-06T00:00:28.001Z" -> [instant |-> 28001, fraction |-> 1]

\* _convert_string_time subtracting the fraction once, which yields the whole
\* second
_convert_string_time_subtract_once(time_value) ==
    LET negative_after_decimal_point == NegativeAfterDecimalPoint(time_value)
        text == IF negative_after_decimal_point THEN StripSign(time_value) ELSE time_value
    IN  IF ~StrptimeAccepts(text) THEN [ok |-> FALSE, parsed |-> 0]
        ELSE LET parsed == Strptime(text) IN
             [ok |-> TRUE,
              parsed |-> IF negative_after_decimal_point
                         THEN parsed.instant - parsed.fraction
                         ELSE parsed.instant]

\* Parser._convert_string_time; ok = FALSE stands for the ValueError
_convert_string_time(time_value) ==
    LET negative_after_decimal_point == NegativeAfterDecimalPoint(time_value)
        text == IF negative_after_decimal_point THEN StripSign(time_value) ELSE time_value
    IN  IF ~StrptimeAccepts(text) THEN [ok |-> FALSE, parsed |-> 0]
        ELSE LET parsed == Strptime(text) IN
             [ok |-> TRUE,
              parsed |-> IF negative_after_decimal_point
                         THEN parsed.instant - parsed.fraction * 2
                         ELSE parsed.instant]

\* the getter returning the configured offset only, never the datum of the
\* last reference record
offset_datetime_configured_only(o, p) ==
    o.offset_datetime

\* the getter preferring the datum of the last reference record to the
\* configured offset
offset_datetime_record_first(o, p) ==
    IF IsSome(p.current_offset_datetime) THEN p.current_offset_datetime
    ELSE o.offset_datetime

\* the getter Parser.offset_datetime
offset_datetime(o, p) ==
    IF IsSome(o.offset_datetime) THEN o.offset_datetime ELSE p.current_offset_datetime

\* _parse_time_value without the assignment to times_are_invalid when the
\* placeholder is used
_parse_time_value_flag_not_set(o, p, time_value) ==
    IF time_value.k = "str"
    THEN LET c == _convert_string_time(time_value.s) IN
         IF c.ok
         THEN [p |-> p, timestamp |-> c.parsed, offset_timestamp |-> None]
         ELSE [p |-> _error_if(o, p, TRUE,
                        "Unexpected " \o TIME_COL \o " format: time data '" \o time_value.s
                        \o "' does not match format '%Y-%m-%dT%H:%M:%S.%fZ'"),
               timestamp |-> GPS_START_DATE,
               offset_timestamp |-> None]
    ELSE IF IsSome(offset_datetime(o, p))
    THEN [p |-> p,
          timestamp |-> offset_datetime(o, p)[1] + timedelta_seconds(time_value),
          offset_timestamp |-> offset_datetime(o, p)]
    ELSE [p |-> p,
          timestamp |-> GPS_START_DATE + timedelta_seconds(time_value),
          offset_timestamp |-> Some(GPS_START_DATE)]

\* _parse_time_value returning the GPS epoch as the datum of an absolute time
_parse_time_value_datum_for_text(o, p, time_value) ==
    IF time_value.k = "str"
    THEN LET c == _convert_string_time(time_value.s) IN
         IF c.ok
         THEN [p |-> p, timestamp |-> c.parsed,
               offset_timestamp |-> Some(GPS_START_DATE)]
         ELSE [p |-> _error_if(o, p, TRUE,
                        "Unexpected " \o TIME_COL \o " format: time data '" \o time_value.s
                        \o "' does not match format '%Y-%m-%dT%H:%M:%S.%fZ'"),
               timestamp |-> GPS_START_DATE,
               offset_timestamp |-> None]
    ELSE IF IsSome(offset_datetime(o, p))
    THEN [p |-> p,
          timestamp |-> offset_datetime(o, p)[1] + timedelta_seconds(time_value),
          offset_timestamp |-> offset_datetime(o, p)]
    ELSE [p |-> [p EXCEPT !.times_are_invalid = TRUE],
          timestamp |-> GPS_START_DATE + timedelta_seconds(time_value),
          offset_timestamp |-> Some(GPS_START_DATE)]

\* Parser._parse_time_value: the parser it leaves, the timestamp and the offset
_parse_time_value(o, p, time_value) ==
    IF time_value.k = "str"
    THEN LET c == _convert_string_time(time_value.s) IN
         IF c.ok
         THEN [p |-> p, timestamp |-> c.parsed, offset_timestamp |-> None]
         ELSE [p |-> _error_if(o, p, TRUE,
                        "Unexpected " \o TIME_COL \o " format: time data '" \o time_value.s
                        \o "' does not match format '%Y-%m-%dT%H:%M:%S.%fZ'"),
               timestamp |-> GPS_START_DATE,
               offset_timestamp |-> None]
    ELSE IF IsSome(offset_datetime(o, p))
    THEN [p |-> p,
          timestamp |-> offset_datetime(o, p)[1] + timedelta_seconds(time_value),
          offset_timestamp |-> offset_datetime(o, p)]
    ELSE [p |-> [p EXCEPT !.times_are_invalid = TRUE],
          timestamp |-> GPS_START_DATE + timedelta_seconds(time_value),
          offset_timestamp |-> Some(GPS_START_DATE)]

\* _time_data_to_offset_datetime returning the reference instant itself,
\* without the subtraction of the record's own time
_time_data_to_offset_datetime_reference(time_column_to_value) ==
    LET d == time_column_to_value IN
    IF TIME_COL \notin DOMAIN d THEN [exception |-> "KeyError", value |-> 0]
    ELSE IF d[TIME_COL].k = "str" THEN [exception |-> "ValueError", value |-> 0]
    ELSE IF "tow" \notin DOMAIN d THEN [exception |-> "KeyError", value |-> 0]
    ELSE IF d["tow"].k = "str" THEN [exception |-> "ValueError", value |-> 0]
    ELSE IF "week" \notin DOMAIN d THEN [exception |-> "KeyError", value |-> 0]
    ELSE IF d["week"].k = "str" THEN [exception |-> "ValueError", value |-> 0]
    ELSE LET time_of_week_seconds == d["tow"]
             week == d["week"].n
             total_diff == timedelta_weeks(week) + timedelta_seconds(time_of_week_seconds)
             reference_datetime == GPS_START_DATE + total_diff
         IN  [exception |-> "", value |-> reference_datetime]

\* _time_data_to_offset_datetime with the time of week alone, without the
\* weeks since the GPS epoch
_time_data_to_offset_datetime_without_week(time_column_to_value) ==
    LET d == time_column_to_value IN
    IF TIME_COL \notin DOMAIN d THEN [exception |-> "KeyError", value |-> 0]
    ELSE IF d[TIME_COL].k = "str" THEN [exception |-> "ValueError", value |-> 0]
    ELSE IF "tow" \notin DOMAIN d THEN [exception |-> "KeyError", value |-> 0]
    ELSE IF d["tow"].k = "str" THEN [exception |-> "ValueError", value |-> 0]
    ELSE IF "week" \notin DOMAIN d THEN [exception |-> "KeyError", value |-> 0]
    ELSE IF d["week"].k = "str" THEN [exception |-> "ValueError", value |-> 0]
    ELSE LET estimated_time_of_week_seconds == d[TIME_COL]
             time_of_week_seconds == d["tow"]
             total_diff == timedelta_seconds(time_of_week_seconds)
             reference_datetime == GPS_START_DATE + total_diff
             offset == reference_datetime - timedelta_seconds(estimated_time_of_week_seconds)
         IN  IF offset + timedelta_seconds(estimated_time_of_week_seconds)
                   # reference_datetime
             THEN [exception |-> "AssertionError", value |-> 0]
             ELSE [exception |-> "", value |-> offset]

\* Parser._time_data_to_offset_datetime; exception = "" when it returns
_time_data_to_offset_datetime(time_column_to_value) ==
    LET d == time_column_to_value IN
    IF TIME_COL \notin DOMAIN d THEN [exception |-> "KeyError", value |-> 0]
    ELSE IF d[TIME_COL].k = "str" THEN [exception |-> "ValueError", value |-> 0]
    ELSE IF "tow" \notin DOMAIN d THEN [exception |-> "KeyError", value |-> 0]
    ELSE IF d["tow"].k = "str" THEN [exception |-> "ValueError", value |-> 0]
    ELSE IF "week" \notin DOMAIN d THEN [exception |-> "KeyError", value |-> 0]
    ELSE IF d["week"].k = "str" THEN [exception |-> "ValueError", value |-> 0]
    ELSE LET estimated_time_of_week_seconds == d[TIME_COL]
             time_of_week_seconds == d["tow"]
             week == d["week"].n
             total_diff == timedelta_weeks(week) + timedelta_seconds(time_of_week_seconds)
             reference_datetime == GPS_START_DATE + total_diff
             offset == reference_datetime - timedelta_seconds(estimated_time_of_week_seconds)
         IN  IF offset + timedelta_seconds(estimated_time_of_week_seconds)
                   # reference_datetime
             THEN [exception |-> "AssertionError", value |-> 0]
             ELSE [exception |-> "", value |-> offset]

\* the rows after the loop of the setter has rewritten the first n of them
RewriteRows(rows, value, n) ==
    [i \in 1..Len(rows) |->
        IF i <= n
        THEN [rows[i] EXCEPT
                !.meta.timestamp = value + timedelta_seconds(rows[i].values[TIME_COL]),
                !.meta.offset_timestamp = Some(value)]
        ELSE rows[i]]

\* the setter without the loop over the rows already produced
set_offset_datetime_no_backfill(o, p, value) ==
    [p EXCEPT !.times_are_invalid = FALSE,
              !.current_offset_datetime = Some(value)]

\* the setter with the loop run at every reference record, not only while
\* times_are_invalid is set
set_offset_datetime_always_backfill(o, p, value) ==
    LET bad == {i \in 1..Len(p.rows) : p.rows[i].values[TIME_COL].k = "str"} IN
    IF bad = {}
    THEN [p EXCEPT !.rows = RewriteRows(@, value, Len(p.rows)),
                   !.times_are_invalid = FALSE,
                   !.current_offset_datetime = Some(value)]
    ELSE LET first == CHOOSE i \in bad : \A j \in bad : i <= j IN
         Raise([p EXCEPT !.rows = RewriteRows(@, value, first - 1)], "TypeError")

\* the setter without the assignment that clears times_are_invalid after the
\* loop
set_offset_datetime_flag_kept(o, p, value) ==
    IF p.times_are_invalid
    THEN LET bad == {i \in 1..Len(p.rows) : p.rows[i].values[TIME_COL].k = "str"} IN
         IF bad = {}
         THEN [p EXCEPT !.rows = RewriteRows(@, value, Len(p.rows)),
                        !.current_offset_datetime = Some(value)]
         ELSE LET first == CHOOSE i \in bad : \A j \in bad : i <= j IN
              Raise([p EXCEPT !.rows = RewriteRows(@, value, first - 1)], "TypeError")
    ELSE [p EXCEPT !.current_offset_datetime = Some(value)]

\* the setter Parser.offset_datetime: the loop stops with a TypeError at the
\* first row whose time value is a string
set_offset_datetime(o, p, value) ==
    IF p.times_are_invalid
    THEN LET bad == {i \in 1..Len(p.rows) : p.rows[i].values[TIME_COL].k = "str"} IN
         IF bad = {}
         THEN [p EXCEPT !.rows = RewriteRows(@, value, Len(p.rows)),
                        !.times_are_invalid = FALSE,
                        !.current_offset_datetime = Some(value)]
         ELSE LET first == CHOOSE i \in bad : \A j \in bad : i <= j IN
              Raise([p EXCEPT !.rows = RewriteRows(@, value, first - 1)], "TypeError")
    ELSE [p EXCEPT !.current_offset_datetime = Some(value)]

----------------------------------------------------------------------------
(* parser.py: the data section *)

\* the dict the loop of _process_data_line builds from the fields of a row
RowData(columns, row_fields) ==
    LET n == Len(row_fields)
        named == {columns[i] : i \in 1..n}
        last(c) == CHOOSE i \in 1..n :
                      /\ columns[i] = c
                      /\ \A j \in 1..n : columns[j] = c => j <= i
    IN  [c \in named |-> _convert_type(row_fields[last(c)])]

\* sorted(set(columns) - set(data))
MissingColumns(columns, data) ==
    SelectSeq(ColumnOrder, LAMBDA c : c \in Range(columns) \ DOMAIN data)

\* DataRowMeta(...) and DataRow(...) as _process_data_line constructs them;
\* valid_offset is not passed and keeps its default
NewRow(data, line_number, sensor_name, timestamp, offset_timestamp) ==
    [values |-> data,
     meta |-> [file_path |-> display_path,
               line_number |-> line_number,
               offset_timestamp |-> offset_timestamp,
               sensor_name |-> sensor_name,
               timestamp |-> timestamp,
               valid_offset |-> FALSE]]

\* the rest of _process_data_line once the offset is up to date
AppendDataRow(o, p, data, line_number, sensor_name) ==
    IF TIME_COL \notin DOMAIN data THEN Raise(p, "KeyError")
    ELSE LET t == _parse_time_value(o, p, data[TIME_COL]) IN
         [t.p EXCEPT !.rows =
             Append(@, NewRow(data, line_number, sensor_name, t.timestamp,
                              t.offset_timestamp))]

\* Parser._process_data_line
_process_data_line(o, p, line_type, row_fields, line_number) ==
    LET p1 == _error_if(o, p, FirstCharIsNotDollar(line_type),
                        "Unexpected line type: '" \o line_type \o "'")
        sensor_name == removeprefix(line_type)
    IN  IF sensor_name \notin DOMAIN p1.columns THEN Raise(p1, "KeyError")
        ELSE LET columns == p1.columns[sensor_name] IN
             IF Len(row_fields) > Len(columns) THEN Raise(p1, "IndexError")
             ELSE LET data == RowData(columns, row_fields)
                      complete == Cardinality(DOMAIN data) = Len(columns)
                      missing_columns == MissingColumns(columns, data)
                      p2 == _error_if(o, p1, ~complete /\ missing_columns # <<>>,
                                      "Missing columns: " \o ReprList(missing_columns) \o ")")
                  IN  IF line_type = ROW_TIME
                      THEN LET off == _time_data_to_offset_datetime(data) IN
                           IF off.exception # "" THEN Raise(p2, off.exception)
                           ELSE LET p3 == set_offset_datetime(o, p2, off.value) IN
                                IF ~Running(p3) THEN p3
                                ELSE AppendDataRow(o, p3, data, line_number, sensor_name)
                      ELSE AppendDataRow(o, p2, data, line_number, sensor_name)

\* _process_line numbering the lines from 0, as enumerate does
_process_line_zero_based(o, p, line_index, text) ==
    LET line_number == line_index
        line_type == Head(text)
        row_fields == Tail(text)
    IN  IF line_index = 0
        THEN _error_if(o, p, text # EXPECTED_HEADER,
                       "First line does not match '$FLYS,1'")
        ELSE IF ~LINE_TYPE_PATTERN(line_type)
        THEN _error_if(o, p, TRUE, "First field does not match '^\\$[A-Z]+$'")
        ELSE IF ~p.complete_header
        THEN _process_header_line(o, p, line_type, row_fields)
        ELSE _process_data_line(o, p, line_type, row_fields, line_number)

\* _process_line passing the lines with a tag of the header section to
\* _process_header_line whether the header is complete or not
_process_line_header_tags_first(o, p, line_index, text) ==
    LET line_number == line_index + 1
        line_type == Head(text)
        row_fields == Tail(text)
    IN  IF line_index = 0
        THEN _error_if(o, p, text # EXPECTED_HEADER,
                       "First line does not match '$FLYS,1'")
        ELSE IF ~LINE_TYPE_PATTERN(line_type)
        THEN _error_if(o, p, TRUE, "First field does not match '^\\$[A-Z]+$'")
        ELSE IF ~p.complete_header \/ line_type \in {ROW_VAR, ROW_COL, ROW_UNIT, ROW_DATA}
        THEN _process_header_line(o, p, line_type, row_fields)
        ELSE _process_data_line(o, p, line_type, row_fields, line_number)

\* Parser._process_line
_process_line(o, p, line_index, text) ==
    LET line_number == line_index + 1
        line_type == Head(text)
        row_fields == Tail(text)
    IN  IF line_index = 0
        THEN _error_if(o, p, text # EXPECTED_HEADER,
                       "First line does not match '$FLYS,1'")
        ELSE IF ~LINE_TYPE_PATTERN(line_type)
        THEN _error_if(o, p, TRUE, "First field does not match '^\\$[A-Z]+$'")
        ELSE IF ~p.complete_header
        THEN _process_header_line(o, p, line_type, row_fields)
        ELSE _process_data_line(o, p, line_type, row_fields, line_number)

\* not line.strip()
IsBlank(text) == text = <<"">>

\* the body of the loop with an anomaly for a blank line in the header section
ParseOneLine_blank_anomaly(o, p, row_index, text) ==
    LET p1 == [p EXCEPT !.current_line_number = Some(row_index + 1)] IN
    IF IsBlank(text) THEN _error_if(o, p1, ~p1.complete_header, "Unexpected blank line")
    ELSE LET p2 == _process_line(o, p1, row_index, text) IN
         IF ~Running(p2) THEN p2
         ELSE [p2 EXCEPT !.current_line_number = None]

\* the body of the loop of Parser.parse for the line at row_index
ParseOneLine(o, p, row_index, text) ==
    LET p1 == [p EXCEPT !.current_line_number = Some(row_index + 1)] IN
    IF IsBlank(text) THEN p1
    ELSE LET p2 == _process_line(o, p1, row_index, text) IN
         IF ~Running(p2) THEN p2
         ELSE [p2 EXCEPT !.current_line_number = None]

\* the break of the loop of Parser.parse
StopsReading(o, p) == o.metadata_only /\ p.complete_header

\* the record types with units and no columns, in place of the symmetric
\* difference
Mismatched_units_without_columns(p) ==
    (DOMAIN p.units) \ (DOMAIN p.columns)

\* symmetric difference of the key sets of columns and units
Mismatched(p) ==
    ((DOMAIN p.columns) \ (DOMAIN p.units)) \cup ((DOMAIN p.units) \ (DOMAIN p.columns))

\* _validate_result without the return of metadata-only parsing: the checks of
\* the rows and of the timestamps are made in every mode
_validate_result_rows_in_metadata_only(o, p) ==
    LET p1 == _error_if(o, p, p.vars = EmptyDict, "No " \o ROW_VAR \o " metadata found.")
        p2 == _error_if(o, p1, p.columns = EmptyDict, "No columns found.")
        p3 == _error_if(o, p2, p.units = EmptyDict, "No units found.")
        p4 == _error_if(o, p3,
                        p.columns # EmptyDict /\ p.units # EmptyDict /\ Mismatched(p) # {},
                        "Columns/ units mismatch.")
        p5 == _error_if(o, p4, ~p.complete_header, "Incomplete metadata.")
        p6 == _error_if(o, p5, p.rows = <<>>, "No data rows found.")
        p7 == _error_if(o, p6, p.times_are_invalid,
                        "No " \o ROW_TIME \o " rows available to fix timestamps.")
    IN  IF o.metadata_only THEN [p7 EXCEPT !.status = "returned"]
        ELSE IF o.strict /\ p7.warnings # <<>>
        THEN Raise(p7, "UnexpectedFormatError")
        ELSE [p7 EXCEPT !.status = "returned"]

\* Parser._validate_result, and the return of Parser.parse
_validate_result(o, p) ==
    LET p1 == _error_if(o, p, p.vars = EmptyDict, "No " \o ROW_VAR \o " metadata found.")
        p2 == _error_if(o, p1, p.columns = EmptyDict, "No columns found.")
        p3 == _error_if(o, p2, p.units = EmptyDict, "No units found.")
        p4 == _error_if(o, p3,
                        p.columns # EmptyDict /\ p.units # EmptyDict /\ Mismatched(p) # {},
                        "Columns/ units mismatch.")
        p5 == _error_if(o, p4, ~p.complete_header, "Incomplete metadata.")
    IN  IF o.metadata_only THEN [p5 EXCEPT !.status = "returned"]
        ELSE LET p6 == _error_if(o, p5, p.rows = <<>>, "No data rows found.")
                 p7 == _error_if(o, p6, p.times_are_invalid,
                                 "No " \o ROW_TIME \o " rows available to fix timestamps.")
             IN  IF o.strict /\ p7.warnings # <<>>
                 THEN Raise(p7, "UnexpectedFormatError")
                 ELSE [p7 EXCEPT !.status = "returned"]

\* the start of Parser.parse
BeginParse(o, p) ==
    [_error_if(o, p, p.vars # EmptyDict,
               "Reusing parser may result in unexpected behavior.")
       EXCEPT !.status = "parsing"]

----------------------------------------------------------------------------
(* parsed.py: merging parsed files *)

\* ParsedCSV() with CSVMeta(): every field at its default
EmptyParsed ==
    [meta |-> [display_paths |-> <<>>,
               vars |-> EmptyDict,
               columns |-> EmptyDict,
               units |-> EmptyDict,
               is_flysight2_file |-> FALSE,
               complete_header |-> FALSE],
     rows |-> <<>>,
     could_not_fix_time |-> FALSE,
     format_errors |-> <<>>]

\* dict | dict: the right operand wins on a shared key
DictUnion(a, b) ==
    [key \in (DOMAIN a) \cup (DOMAIN b) |-> IF key \in DOMAIN b THEN b[key] ELSE a[key]]

\* a sort key of the timestamp alone, without the line number
KeyBefore_timestamp_only(a, b) ==
    a.meta.timestamp < b.meta.timestamp

\* DataRowMeta.safe_timestamp_sort_key, compared as a tuple: a sorts before b
KeyBefore(a, b) ==
    \/ a.meta.timestamp < b.meta.timestamp
    \/ (a.meta.timestamp = b.meta.timestamp /\ a.meta.line_number < b.meta.line_number)

\* insertion of a row behind every row whose key is not greater
RECURSIVE InsertSorted(_, _)
InsertSorted(sorted_rows, row) ==
    IF sorted_rows = <<>> THEN <<row>>
    ELSE IF KeyBefore(row, Head(sorted_rows)) THEN <<row>> \o sorted_rows
    ELSE <<Head(sorted_rows)>> \o InsertSorted(Tail(sorted_rows), row)

\* sorted(rows, key=safe_timestamp_sort_key): a stable sort
RECURSIVE SortedRows(_)
SortedRows(rows) ==
    IF rows = <<>> THEN <<>>
    ELSE InsertSorted(SortedRows(SubSeq(rows, 1, Len(rows) - 1)), rows[Len(rows)])

\* the test without its "self.vars and" conjunct
VarsMismatchRaises_either_side(self, other, allow) ==
    ~allow /\ self.vars # other.vars

\* the test of CSVMeta.merge_with that raises ValueError
VarsMismatchRaises(self, other, allow) ==
    ~allow /\ self.vars # EmptyDict /\ self.vars # other.vars

\* CSVMeta.merge_with with the complete_header of self alone
CSVMeta_merge_with_header_of_self(self, other) ==
    [display_paths |-> self.display_paths \o other.display_paths,
     vars |-> DictUnion(self.vars, other.vars),
     columns |-> DictUnion(self.columns, other.columns),
     units |-> DictUnion(self.units, other.units),
     is_flysight2_file |-> FALSE,
     complete_header |-> self.complete_header]

\* CSVMeta.merge_with, when it returns
CSVMeta_merge_with(self, other) ==
    [display_paths |-> self.display_paths \o other.display_paths,
     vars |-> DictUnion(self.vars, other.vars),
     columns |-> DictUnion(self.columns, other.columns),
     units |-> DictUnion(self.units, other.units),
     is_flysight2_file |-> FALSE,
     complete_header |-> self.complete_header /\ other.complete_header]

\* ParsedCSV.merge_with: the rows are merged first, then the metadata
ParsedCSV_merge_with(self, other, sort, allow) ==
    LET merged_rows == IF sort THEN SortedRows(self.rows \o other.rows)
                       ELSE self.rows \o other.rows
    IN  IF VarsMismatchRaises(self.meta, other.meta, allow)
        THEN [status |-> "ValueError", value |-> EmptyParsed]
        ELSE [status |-> "returned",
              value |-> [meta |-> CSVMeta_merge_with(self.meta, other.meta),
                         rows |-> merged_rows,
                         could_not_fix_time |->
                             self.could_not_fix_time \/ other.could_not_fix_time,
                         format_errors |-> self.format_errors \o other.format_errors]]

NotMerged == [status |-> "none", value |-> EmptyParsed]

\* id() of the objects that make up one parsed file: the ParsedCSV, its
\* CSVMeta and the lists and dicts the two of them hold
ObjectIds(base) ==
    [parsed |-> base + 1, meta |-> base + 2, rows |-> base + 3,
     format_errors |-> base + 4, display_paths |-> base + 5,
     vars |-> base + 6, columns |-> base + 7, units |-> base + 8]

\* the objects of self and of other, which the caller holds
LeftIds == ObjectIds(0)

RightIds == ObjectIds(10)

\* no object
NoIds == [f \in DOMAIN LeftIds |-> 0]

\* merge_with done with list.extend on self.rows (list.sort when sorting)
\* in place of the + and the sorted() that build a new list
MergeEffects_extend(self, other, sort) ==
    [self |-> [self EXCEPT !.rows = IF sort THEN SortedRows(self.rows \o other.rows)
                                    ELSE self.rows \o other.rows],
     other |-> other,
     ids |-> [ObjectIds(20) EXCEPT !.rows = LeftIds.rows]]

\* what the two merge_with leave in memory: the operands after the call
\* and the objects of the result.  Every statement reads its operands
\* (itertools.chain, sorted(), list + list, dict | dict) and every one of
\* these, like the constructors CSVMeta(...) and ParsedCSV(...), returns a
\* new object; the rows list is built before CSVMeta.merge_with may raise
MergeEffects(self, other, sort) ==
    [self |-> self, other |-> other, ids |-> ObjectIds(20)]

----------------------------------------------------------------------------
(* program.py: a directory of files *)

\* what a path of the directory holds: a CSV file of another kind, a well
\* formed FlySight 2 file, one with a format anomaly, one that makes the
\* parser crash
PathKinds == {"other", "good", "malformed", "crashing"}

\* the exceptions derived from ProgramBaseError
ProgramBaseErrors == {"FileProcessingError", "WarningEncounteredError", "BadParameterError"}

\* no Program is running
IdleProgram ==
    [ui |-> [continue_on_error |-> FALSE, stop_on_warning |-> FALSE],
     strict |-> FALSE,
     paths |-> <<>>,
     index |-> 0,
     all_parsed |-> <<>>,
     status |-> "idle"]

\* Program._warn: the exception it raises, "" when it returns
_warn(ui) == IF ui.stop_on_warning THEN "WarningEncounteredError" ELSE ""

\* _handle_file_processing_error raising FileProcessingError for a format
\* error whatever continue_on_error is
_handle_file_processing_error_always_raises(ui, e) ==
    IF e \in ProgramBaseErrors THEN e
    ELSE IF e = "UnexpectedFormatError" THEN "FileProcessingError"
    ELSE IF ui.continue_on_error THEN ""
    ELSE "FileProcessingError"

\* Program._handle_file_processing_error: the exception that leaves it, ""
\* when it returns
_handle_file_processing_error(ui, e) ==
    IF e \in ProgramBaseErrors THEN e
    ELSE IF e = "UnexpectedFormatError"
    THEN IF ui.continue_on_error THEN "" ELSE "FileProcessingError"
    ELSE IF ui.continue_on_error THEN ""
    ELSE "FileProcessingError"

\* Program._process_file with an output directory and a reformatting output
\* format: parse_csv returns, or raises UnexpectedFormatError in strict mode,
\* or crashes
_process_file(g, kind) ==
    IF kind = "good" THEN [exception |-> "", parsed |-> TRUE]
    ELSE IF kind = "malformed"
    THEN IF g.strict THEN [exception |-> "UnexpectedFormatError", parsed |-> FALSE]
         ELSE [exception |-> "", parsed |-> TRUE]
    ELSE [exception |-> "KeyError", parsed |-> FALSE]

\* the body of the loop of Program._process_directory for the next path
ProcessPath(g) ==
    LET path == g.index + 1
        kind == g.paths[path]
        is_flysight2_file == kind # "other"
        result == _process_file(g, kind)
        e == IF ~is_flysight2_file THEN _warn(g.ui) ELSE result.exception
        raised == IF e = "" THEN "" ELSE _handle_file_processing_error(g.ui, e)
    IN  IF raised # "" THEN [g EXCEPT !.status = raised]
        ELSE IF is_flysight2_file /\ e = "" /\ result.parsed
        THEN [g EXCEPT !.index = path, !.all_parsed = Append(@, path)]
        ELSE [g EXCEPT !.index = path]

\* Program._process_merge with output.merge set: the exception it raises, ""
\* when it returns
_process_merge(g) ==
    IF Len(g.paths) = 1 THEN _warn(g.ui)
    ELSE IF g.all_parsed = <<>>
    THEN IF g.strict THEN "AssertionError" ELSE _warn(g.ui)
    ELSE ""

\* the end of Program._process_directory: the merge and its error handling
ProcessMerged(g) ==
    LET e == _process_merge(g)
        raised == IF e = "" THEN "" ELSE _handle_file_processing_error(g.ui, e)
    IN  [g EXCEPT !.status = IF raised = "" THEN "returned" ELSE raised]

----------------------------------------------------------------------------
(* The inputs *)

\* a well formed header: magic line, one $VAR, three record types, $DATA
SensorHeader ==
    << <<"$FLYS", "1">>,
       <<"$VAR", "DEVICE_ID", "0033">>,
       <<"$COL", "VBAT", "time", "voltage">>,
       <<"$UNIT", "VBAT", "s", "volt">>,
       <<"$COL", "TIME", "time", "tow", "week">>,
       <<"$UNIT", "TIME", "s", "s", "">>,
       <<"$COL", "GNSS", "time", "lat">>,
       <<"$UNIT", "GNSS", "", "deg">>,
       <<"$DATA">> >>

\* data lines of a sensor file: relative-time rows, reference-time rows with
\* equal and with different datums, reference-time rows on both sides of the
\* end of a GPS week, absolute-time rows without and with the "-" in the
\* fraction
SensorLines ==
    { <<"$VBAT", "1", "3.7">>,
      <<"$VBAT", "2.5", "3.7">>,
      <<"$TIME", "3", "10", "1">>,
      <<"$TIME", "4", "11", "1">>,
      <<"$TIME", "4", "20", "1">>,
      <<"$TIME", "3", "604799", "1">>,
      <<"$TIME", "4", "0", "2">>,
      <<"$TIME", "3", "604799", "2">>,
      <<"$TIME", "4", "0", "3">>,
      <<"$GNSS", "1980-01-06T00:00:05.100Z", "38.5">>,
      <<"$GNSS", "1980-01-06T00:00:28.-001Z", "38.5">> }

\* the header of a track file: two $VAR, the one record type of position
\* fixes with its units, $DATA
TrackHeader ==
    << <<"$FLYS", "1">>,
       <<"$VAR", "DEVICE_ID", "0033">>,
       <<"$VAR", "SESSION_ID", "0044">>,
       <<"$COL", "GNSS", "time", "lat">>,
       <<"$UNIT", "GNSS", "", "deg">>,
       <<"$DATA">> >>

\* data lines of a track file: absolute-time rows only
TrackLines ==
    { <<"$GNSS", "1980-01-06T00:00:05.100Z", "38.5">>,
      <<"$GNSS", "1980-01-06T00:00:28.-001Z", "38.5">> }

\* data lines of a damaged file: malformed tags, a short row, a blank line,
\* an unreadable time, a row with a field too many
DamagedLines ==
    { <<"foo">>,
      <<"bar", "1">>,
      <<"$VBAT", "1", "3.7">>,
      <<"$VBAT", "2">>,
      <<"">>,
      <<"$GNSS", "notatime", "38.5">>,
      <<"$VBAT", "1", "3.7", "6">> }

\* lines of a file whose header section is not the well formed one: header
\* lines in any order and number (a record type with and without names, with
\* and without units, a second record type without units), the terminator
\* with and without fields, a blank line, and rows of a declared type, of an
\* undeclared type and without fields, a $VAR line without a value and a
\* $UNIT line with a unit too many
HeaderLines ==
    { <<"$VAR", "DEVICE_ID", "0033">>,
      <<"$COL", "VBAT", "time", "voltage">>,
      <<"$UNIT", "VBAT", "s", "volt">>,
      <<"$COL", "VBAT">>,
      <<"$UNIT", "VBAT">>,
      <<"$COL", "IMU", "time">>,
      <<"$DATA">>,
      <<"$DATA", "1">>,
      <<"">>,
      <<"$VBAT", "1", "3.7">>,
      <<"$BARO", "1">>,
      <<"$VBAT">>,
      <<"$VAR", "DEVICE_ID">>,
      <<"$UNIT", "VBAT", "s", "volt", "deg">> }

FileKinds == {"sensor", "damaged", "header", "track"}

\* the lines a file of the kind may hold at the 1-based position n
LinesAt(kind, n) ==
    IF kind = "header"
    THEN IF n = 1 THEN {SensorHeader[1]} ELSE HeaderLines
    ELSE IF kind = "track"
    THEN IF n <= Len(TrackHeader) THEN {TrackHeader[n]} ELSE TrackLines
    ELSE IF n <= Len(SensorHeader)
    THEN IF kind = "damaged" /\ n = 1 THEN {SensorHeader[1], <<"FLYS">>, <<"">>}
         ELSE {SensorHeader[n]}
    ELSE IF kind = "sensor" THEN SensorLines ELSE DamagedLines

\* the longest file of the kind
MaxLines(kind) ==
    IF kind = "header" THEN 1 + MaxHeaderLines
    ELSE IF kind = "track" THEN Len(TrackHeader) + MaxFreeLines
    ELSE Len(SensorHeader) + MaxFreeLines

ConfiguredOffset == 50000

\* StringSelection(): no filter set
NoFilters ==
    [case_insensitive |-> FALSE, exclude_values |-> None, include_values |-> None,
     exclude_patterns |-> None, include_patterns |-> None]

\* no selection is being built
IdleSelection ==
    [status |-> "idle", args |-> NoFilters, self |-> NoFilters, column |-> "",
     result |-> None]

\* the strings a selection is asked about and the literals it is built from
SelectionStrings == {"a", "A", "b"}

\* the regular expressions a selection is built from
SelectionPatterns == SelectionStrings \cup {".*"}

MaxSelectionItems == 1

\* a filter argument over the items: not given, or at most MaxSelectionItems
\* of them (the empty list included)
FilterArguments(items) ==
    {None} \cup {Some(S) : S \in {T \in SUBSET items : Cardinality(T) <= MaxSelectionItems}}

\* the arguments of StringSelection.__init__
SelectionArgs ==
    [case_insensitive : BOOLEAN,
     exclude_values : FilterArguments(SelectionStrings),
     include_values : FilterArguments(SelectionStrings),
     exclude_patterns : FilterArguments(SelectionPatterns),
     include_patterns : FilterArguments(SelectionPatterns)]

\* the ParserOptions the files of the kind are parsed with
OptionsFor(kind) ==
    IF kind = "sensor"
    THEN [display_path_levels : {1},
          metadata_only : {FALSE},
          offset_datetime : {None, Some(ConfiguredOffset)},
          strict : BOOLEAN,
          ignore_all_errors : {FALSE},
          ignored_errors : {None}]
    ELSE IF kind = "track"
    THEN [display_path_levels : {1},
          metadata_only : BOOLEAN,
          offset_datetime : {None, Some(ConfiguredOffset)},
          strict : BOOLEAN,
          ignore_all_errors : {FALSE},
          ignored_errors : {None}]
    ELSE IF kind = "header"
    THEN [display_path_levels : {1},
          metadata_only : BOOLEAN,
          offset_datetime : {None},
          strict : BOOLEAN,
          ignore_all_errors : {FALSE},
          ignored_errors : {None}]
    ELSE [display_path_levels : {1},
          metadata_only : BOOLEAN,
          offset_datetime : {None},
          strict : BOOLEAN,
          ignore_all_errors : {FALSE},
          ignored_errors : {None, Some(NoFilters),
                            Some(IncludePatterns({"Missing columns"}))}]
         \cup
         [display_path_levels : {1},
          metadata_only : BOOLEAN,
          offset_datetime : {None},
          strict : BOOLEAN,
          ignore_all_errors : {TRUE},
          ignored_errors : {None}]

\* the options of the second parser: the same, strict mode off
NonStrict(o) == [o EXCEPT !.strict = FALSE]

MergeVars == {EmptyDict, [DEVICE_ID |-> "0033"], [DEVICE_ID |-> "0044"]}

MergeRow(sensor_name, line_number, timestamp) ==
    [values |-> [time |-> IntV(timestamp)],
     meta |-> [file_path |-> display_path,
               line_number |-> line_number,
               offset_timestamp |-> Some(GPS_START_DATE),
               sensor_name |-> sensor_name,
               timestamp |-> timestamp,
               valid_offset |-> FALSE]]

\* rows with equal keys, with equal timestamps on different lines, and with
\* different timestamps
MergeRows ==
    {MergeRow("VBAT", 10, 1000), MergeRow("IMU", 10, 1000), MergeRow("VBAT", 11, 500),
     MergeRow("VBAT", 12, 1000)}

RECURSIVE SeqsUpTo(_, _)
SeqsUpTo(S, n) ==
    IF n = 0 THEN {<<>>}
    ELSE LET shorter == SeqsUpTo(S, n - 1) IN
         shorter \cup {Append(q, x) : q \in shorter, x \in S}

\* the parsed files offered to merge
MergeOperands ==
    {[meta |-> [display_paths |-> <<>>,
                vars |-> v,
                columns |-> EmptyDict,
                units |-> EmptyDict,
                is_flysight2_file |-> FALSE,
                complete_header |-> c],
      rows |-> r,
      could_not_fix_time |-> t,
      format_errors |-> <<>>] :
        v \in MergeVars, c \in BOOLEAN, t \in BOOLEAN, r \in SeqsUpTo(MergeRows, MaxMergeRows)}

----------------------------------------------------------------------------
(* The state machines *)

IdleMerge ==
    /\ left = EmptyParsed
    /\ right = EmptyParsed
    /\ sort_by_timestamp = FALSE
    /\ allow_vars_mismatch = FALSE
    /\ merged = NotMerged
    /\ merged_ids = NoIds

\* a parser has been constructed for a file, a second one with strict off
Init ==
    /\ file_kind \in FileKinds
    /\ options \in OptionsFor(file_kind)
    /\ line_count = 0
    /\ line = None
    /\ first_line = None
    /\ parser = NewParser
    /\ twin = NewParser
    /\ IdleMerge
    /\ program = IdleProgram
    /\ selection = IdleSelection

\* Parser.parse is entered
Parse ==
    /\ parser.status = "new"
    /\ parser' = BeginParse(options, parser)
    /\ twin' = BeginParse(NonStrict(options), twin)
    /\ UNCHANGED <<options, file_kind, line_count, line, first_line,
                   left, right, sort_by_timestamp, allow_vars_mismatch, merged,
                   merged_ids, program, selection>>

\* one turn of the loop of Parser.parse: the next physical line is read
ParseLine ==
    /\ Running(parser)
    /\ ~StopsReading(options, parser)
    /\ line_count < MaxLines(file_kind)
    /\ \E text \in LinesAt(file_kind, line_count + 1) :
          /\ line' = text
          /\ first_line' = IF line_count = 0 THEN Some(text) ELSE first_line
          /\ parser' = ParseOneLine(options, parser, line_count, text)
          /\ twin' = ParseOneLine(NonStrict(options), twin, line_count, text)
    /\ line_count' = line_count + 1
    /\ UNCHANGED <<options, file_kind,
                   left, right, sort_by_timestamp, allow_vars_mismatch, merged,
                   merged_ids, program, selection>>

\* the loop of Parser.parse ends (the input is exhausted or the loop breaks):
\* the result is validated and parse returns or raises
EndOfInput ==
    /\ Running(parser)
    /\ parser' = _validate_result(options, parser)
    /\ twin' = _validate_result(NonStrict(options), twin)
    /\ UNCHANGED <<options, file_kind, line_count, line, first_line,
                   left, right, sort_by_timestamp, allow_vars_mismatch, merged,
                   merged_ids, program, selection>>

Next == Parse \/ ParseLine \/ EndOfInput

Spec == Init /\ [][Next]_vars

\* two parsed files and the arguments of merge_with
InitMerge ==
    /\ file_kind = "sensor"
    /\ options \in {o \in OptionsFor("sensor") : o.strict /\ o.offset_datetime = None}
    /\ line_count = 0
    /\ line = None
    /\ first_line = None
    /\ parser = NewParser
    /\ twin = NewParser
    /\ left \in MergeOperands
    /\ right \in MergeOperands
    /\ Len(left.rows) + Len(right.rows) <= MaxMergeRows
    /\ sort_by_timestamp \in BOOLEAN
    /\ allow_vars_mismatch \in BOOLEAN
    /\ merged = NotMerged
    /\ merged_ids = NoIds
    /\ program = IdleProgram
    /\ selection = IdleSelection

\* left.merge_with(right, sort_by_timestamp, allow_vars_mismatch)
Merge ==
    /\ merged.status = "none"
    /\ LET result == ParsedCSV_merge_with(left, right, sort_by_timestamp,
                                          allow_vars_mismatch)
           effects == MergeEffects(left, right, sort_by_timestamp)
       IN  /\ merged' = result
           /\ left' = effects.self
           /\ right' = effects.other
           /\ merged_ids' = IF result.status = "returned" THEN effects.ids ELSE NoIds
    /\ UNCHANGED <<options, file_kind, line_count, line, first_line, parser, twin,
                   sort_by_timestamp, allow_vars_mismatch, program,
                   selection>>

NextMerge == Merge

SpecMerge == InitMerge /\ [][NextMerge]_vars

\* the parsers and the merge of the states of the batch
IdleParser ==
    /\ file_kind = "sensor"
    /\ options \in {o \in OptionsFor("sensor") : o.strict /\ o.offset_datetime = None}
    /\ line_count = 0
    /\ line = None
    /\ first_line = None
    /\ parser = NewParser
    /\ twin = NewParser

\* Program.run has found the files of a directory
InitBatch ==
    /\ IdleParser
    /\ IdleMerge
    /\ \E n \in 1..MaxBatchFiles :
          program \in [ui : [continue_on_error : BOOLEAN, stop_on_warning : BOOLEAN],
                       strict : BOOLEAN,
                       paths : [1..n -> PathKinds],
                       index : {0},
                       all_parsed : {<<>>},
                       status : {"files"}]
    /\ selection = IdleSelection

\* one turn of the loop of Program._process_directory
ProcessFile ==
    /\ program.status = "files"
    /\ program.index < Len(program.paths)
    /\ program' = ProcessPath(program)
    /\ UNCHANGED <<options, file_kind, line_count, line, first_line, parser, twin,
                   left, right, sort_by_timestamp, allow_vars_mismatch, merged,
                   merged_ids, selection>>

\* the loop has ended: the parsed files are merged
ProcessMerge ==
    /\ program.status = "files"
    /\ program.index = Len(program.paths)
    /\ program' = ProcessMerged(program)
    /\ UNCHANGED <<options, file_kind, line_count, line, first_line, parser, twin,
                   left, right, sort_by_timestamp, allow_vars_mismatch, merged,
                   merged_ids, selection>>

NextBatch == ProcessFile \/ ProcessMerge

SpecBatch == InitBatch /\ [][NextBatch]_vars

\* the arguments of a StringSelection and a string to ask it about
InitSelection ==
    /\ IdleParser
    /\ IdleMerge
    /\ program = IdleProgram
    /\ selection \in [status : {"args"},
                      args : SelectionArgs,
                      self : {NoFilters},
                      column : SelectionStrings,
                      result : {None}]

\* StringSelection(case_insensitive, exclude_values, include_values,
\* exclude_patterns, include_patterns)
Construct ==
    /\ selection.status = "args"
    /\ selection' = [selection EXCEPT !.status = "constructed",
                                      !.self = StringSelection(selection.args)]
    /\ UNCHANGED <<options, file_kind, line_count, line, first_line, parser, twin,
                   left, right, sort_by_timestamp, allow_vars_mismatch, merged,
                   merged_ids, program>>

\* self.matches(column)
Matches ==
    /\ selection.status = "constructed"
    /\ selection' = [selection EXCEPT !.status = "matched",
                                      !.result = Some(matches(selection.self,
                                                              selection.column))]
    /\ UNCHANGED <<options, file_kind, line_count, line, first_line, parser, twin,
                   left, right, sort_by_timestamp, allow_vars_mismatch, merged,
                   merged_ids, program>>

NextSelection == Construct \/ Matches

SpecSelection == InitSelection /\ [][NextSelection]_vars

----------------------------------------------------------------------------
(* Vocabulary of the properties *)

\* the row's time was a number of seconds on the device clock
IsRelative(row) == row.values[TIME_COL].k # "str"

\* position in rows of the first reference-time row, 0 when there is none
FirstReference(rows) ==
    IF \E i \in DOMAIN rows : rows[i].meta.sensor_name = "TIME"
    THEN CHOOSE i \in DOMAIN rows :
            /\ rows[i].meta.sensor_name = "TIME"
            /\ \A j \in DOMAIN rows : rows[j].meta.sensor_name = "TIME" => i <= j
    ELSE 0

\* the datum a reference-time row yields: reference instant minus its own time
DatumOf(row) ==
    GPS_START_DATE + (row.values["week"].n \div 1000) * MsPerWeek
        + row.values["tow"].n - row.values[TIME_COL].n

\* parse has returned or has raised UnexpectedFormatError
Finished(p) == p.status \in {"returned", "UnexpectedFormatError"}

\* the policy suppresses the message
Suppressed(o, message) ==
    \/ o.ignore_all_errors
    \/ /\ o.ignored_errors # None
       /\ SelectionBool(o.ignored_errors[1])
       /\ matches(o.ignored_errors[1], message)

WarningTexts(p) == {p.warnings[i].message : i \in DOMAIN p.warnings}

TagMismatchText == "First field does not match '^\\$[A-Z]+$'"

----------------------------------------------------------------------------
(* Properties of the parser *)

\* C1: with no configured offset, once the first reference-time row has been
\* decoded, every relative-time row produced before it has the datum of that
\* record as offset_timestamp and that datum plus its own relative seconds as
\* timestamp, so none of them keeps the GPS-epoch placeholder
C1_BackfillAtFirstReference ==
    (options.offset_datetime = None /\ FirstReference(parser.rows) > 0) =>
        LET first == FirstReference(parser.rows)
            datum == DatumOf(parser.rows[first])
        IN  \A j \in 1..(first - 1) :
               IsRelative(parser.rows[j]) =>
                  /\ parser.rows[j].meta.offset_timestamp = Some(datum)
                  /\ parser.rows[j].meta.timestamp
                        = datum + parser.rows[j].values[TIME_COL].n
                  /\ (datum # GPS_START_DATE
                        => parser.rows[j].meta.offset_timestamp # Some(GPS_START_DATE))

\* C1 witness: a relative-time row precedes the first reference-time row
C1_Witness ==
    /\ options.offset_datetime = None
    /\ FirstReference(parser.rows) > 1
    /\ IsRelative(parser.rows[1])
    /\ parser.rows[1].meta.offset_timestamp # Some(GPS_START_DATE)

\* C2: in strict mode an unsuppressed anomaly raised at line k aborts the
\* parse at line k: the parse has raised, no line after k has been read, no
\* row of a later line exists and no later anomaly is recorded
C2_StrictAbortsAtLine ==
    (options.strict /\ parser.warnings # <<>> /\ parser.warnings[1].line # None) =>
        LET k == parser.warnings[1].line[1] IN
        /\ parser.status = "UnexpectedFormatError"
        /\ line_count = k
        /\ \A i \in DOMAIN parser.rows : parser.rows[i].meta.line_number <= k
        /\ Len(parser.warnings) = 1

\* C3: a finished strict parse has raised UnexpectedFormatError exactly when
\* some raised anomaly was not suppressed, in full and in metadata-only mode,
\* and a strict parse that returned has empty diagnostics
C3_StrictRaisesIffUnsuppressed ==
    (options.strict /\ Finished(parser)) =>
        /\ parser.status = "UnexpectedFormatError"
              <=> (\E m \in parser.warned_messages : ~Suppressed(options, m))
        /\ (parser.status = "returned" => parser.warnings = <<>>)

\* C4: with no configured offset, valid_offset of a row is true exactly when
\* its offset_timestamp came from a reference record (the row is a
\* relative-time row and a reference-time row has been decoded)
C4_ValidOffsetIffGenuine ==
    options.offset_datetime = None =>
        \A i \in DOMAIN parser.rows :
            parser.rows[i].meta.valid_offset
               <=> (IsRelative(parser.rows[i]) /\ FirstReference(parser.rows) > 0)

\* C5 as claimed: after parsing, each relative-time row before the first
\* reference-time row has the offset in effect at the end of the parse plus
\* its relative seconds as timestamp
C5_TimestampFromFinalDatum ==
    (Finished(parser) /\ FirstReference(parser.rows) > 0) =>
        \A j \in 1..(FirstReference(parser.rows) - 1) :
            IsRelative(parser.rows[j]) =>
               parser.rows[j].meta.timestamp
                  = offset_datetime(options, parser)[1] + parser.rows[j].values[TIME_COL].n

\* C5 amended: after parsing, each relative-time row before the first
\* reference-time row has as timestamp its relative seconds plus the offset
\* that was in effect once the first reference-time record was decoded (the
\* configured offset, else the datum of the first record); later reference
\* records do not move it
C5_TimestampFromFirstDatum ==
    (Finished(parser) /\ FirstReference(parser.rows) > 0) =>
        LET first == FirstReference(parser.rows)
            base == IF options.offset_datetime # None THEN options.offset_datetime[1]
                    ELSE DatumOf(parser.rows[first])
        IN  \A j \in 1..(first - 1) :
               IsRelative(parser.rows[j]) =>
                  parser.rows[j].meta.timestamp = base + parser.rows[j].values[TIME_COL].n

\* C5 witness: a finished parse with a relative-time row, then two reference
\* records whose datums differ
C5_Witness ==
    /\ Finished(parser)
    /\ options.offset_datetime = None
    /\ FirstReference(parser.rows) > 1
    /\ IsRelative(parser.rows[1])
    /\ \E i \in DOMAIN parser.rows :
          /\ parser.rows[i].meta.sensor_name = "TIME"
          /\ DatumOf(parser.rows[i]) # DatumOf(parser.rows[FirstReference(parser.rows)])

\* C6: every message that passed the gate is in exactly one list: in the
\* ignored list when the policy suppresses it, in the diagnostics otherwise,
\* and no message text is in both
C6_OneOutcomePerAnomaly ==
    /\ \A i \in DOMAIN parser.ignored_messages :
          Suppressed(options, parser.ignored_messages[i])
    /\ \A i \in DOMAIN parser.warnings : ~Suppressed(options, parser.warnings[i].message)
    /\ Range(parser.ignored_messages) \cap WarningTexts(parser) = {}
    /\ Range(parser.ignored_messages) \cup WarningTexts(parser) = parser.warned_messages

\* C6 witness: one parse has suppressed one anomaly and recorded another
C6_Witness ==
    /\ parser.ignored_messages # <<>>
    /\ parser.warnings # <<>>

\* no message text occurs twice across the ignored list and the diagnostics
RecordedOnce(p) ==
    /\ \A i, j \in DOMAIN p.ignored_messages :
          p.ignored_messages[i] = p.ignored_messages[j] => i = j
    /\ \A i, j \in DOMAIN p.warnings :
          p.warnings[i].message = p.warnings[j].message => i = j
    /\ Range(p.ignored_messages) \cap WarningTexts(p) = {}

\* a line after line 1 whose first field is not a tag is read: first or
\* repeated, the line is skipped and the lists change only by a first record
SkipsMalformedTag ==
    (/\ line_count' = line_count + 1
     /\ line_count >= 1
     /\ ~IsBlank(line')
     /\ ~LINE_TYPE_PATTERN(Head(line'))) =>
        /\ parser'.rows = parser.rows
        /\ parser'.vars = parser.vars
        /\ parser'.columns = parser.columns
        /\ parser'.units = parser.units
        /\ parser'.complete_header = parser.complete_header
        /\ parser'.status = parser.status
        /\ TagMismatchText \in parser'.warned_messages
        /\ (TagMismatchText \in parser.warned_messages =>
               /\ parser'.ignored_messages = parser.ignored_messages
               /\ parser'.warnings = parser.warnings)

\* C7: each anomaly message text is recorded at most once per parse, and a
\* line that repeats an anomaly is skipped as the first one was
C7_RecordedOnceAndSkipped == [](RecordedOnce(parser)) /\ [][SkipsMalformedTag]_vars

\* C7 witness: a malformed tag has just been read again, after the line that
\* had its message recorded
C7_Witness ==
    /\ line # None
    /\ ~IsBlank(line)
    /\ ~LINE_TYPE_PATTERN(Head(line))
    /\ \E i \in DOMAIN parser.warnings :
          /\ parser.warnings[i].message = TagMismatchText
          /\ parser.warnings[i].line # None
          /\ parser.warnings[i].line[1] < line_count

\* C8: when the non-strict parse of an input has ended with diagnostics, the
\* strict parse of the same input has raised UnexpectedFormatError, the
\* non-strict one has returned, and every row of the non-strict parser equals
\* the row the strict parser holds at the same position
C8_StrictAndNonStrictAgree ==
    (options.strict /\ ~Running(twin) /\ twin.status # "new" /\ twin.warnings # <<>>) =>
        /\ parser.status = "UnexpectedFormatError"
        /\ twin.status = "returned"
        /\ \A i \in DOMAIN twin.rows :
              i \in DOMAIN parser.rows /\ parser.rows[i] = twin.rows[i]

----------------------------------------------------------------------------
(* Properties of merge *)

\* C9: with vars mismatch not permitted and no sorting, merging a parsed file
\* with an empty one, on either side, returns a result whose rows are the
\* rows of the non-empty operand
C9_MergeWithEmptyIsNeutral ==
    (merged.status # "none" /\ ~allow_vars_mismatch /\ ~sort_by_timestamp) =>
        /\ right = EmptyParsed =>
              merged.status = "returned" /\ merged.value.rows = left.rows
        /\ left = EmptyParsed =>
              merged.status = "returned" /\ merged.value.rows = right.rows

\* C10 as claimed: merge raises exactly when the vars of the operands differ
\* and mismatch is not permitted
C10_RaisesIffVarsDiffer ==
    merged.status # "none" =>
        (merged.status = "ValueError"
            <=> (~allow_vars_mismatch /\ left.meta.vars # right.meta.vars))

\* C10 amended: merge raises exactly when mismatch is not permitted, the
\* vars of the left operand are not empty and they differ from the vars of
\* the right operand; it succeeds otherwise, so also for any right operand
\* when the left operand has no vars
C10_RaisesIffLeftVarsDiffer ==
    merged.status # "none" =>
        /\ merged.status = "ValueError"
              <=> (/\ ~allow_vars_mismatch
                   /\ DOMAIN left.meta.vars # {}
                   /\ left.meta.vars # right.meta.vars)
        /\ merged.status \in {"ValueError", "returned"}

\* C10 witness: a merge that returned although the vars differ and mismatch
\* is not permitted (the left operand has none), so the left-hand exemption
\* is exercised
C10_Witness ==
    /\ merged.status = "returned"
    /\ ~allow_vars_mismatch
    /\ left.meta.vars = EmptyDict
    /\ right.meta.vars # EmptyDict

\* the ids of the objects of a parsed file
IdsOf(ids) == {ids[f] : f \in DOMAIN ids}

\* C11: merge is pure: across the call, sorting or not, returning or raising,
\* both operands (meta maps, rows and their order, flags, diagnostics) are
\* what they were, and the ParsedCSV returned and the containers it holds are
\* objects of their own, none of them an object of an operand
C11_MergeIsPure ==
    [][/\ left' = left
       /\ right' = right
       /\ (merged'.status = "returned" =>
              /\ 0 \notin IdsOf(merged_ids')
              /\ IdsOf(merged_ids') \cap (IdsOf(LeftIds) \cup IdsOf(RightIds)) = {}
              /\ Cardinality(IdsOf(merged_ids')) = Cardinality(DOMAIN merged_ids'))]_vars

\* C11 witness: a sorting merge of two operands with rows has returned rows
\* in another order than the concatenation
C11_Witness ==
    /\ merged.status = "returned"
    /\ sort_by_timestamp
    /\ left.rows # <<>>
    /\ right.rows # <<>>
    /\ merged.value.rows # left.rows \o right.rows

\* number of positions of the sequence that hold the row
Occurrences(rows, row) == Cardinality({i \in DOMAIN rows : rows[i] = row})

\* C12: a merge that sorts returns a permutation of the rows of the left
\* operand followed by those of the right operand (as many rows as the two
\* have together) in non-decreasing order of (timestamp, line_number); a
\* merge that does not sort returns the rows of the left operand followed by
\* the rows of the right operand, each in their order
C12_MergedRowOrder ==
    merged.status = "returned" =>
        LET both == left.rows \o right.rows
            rows == merged.value.rows
        IN  IF sort_by_timestamp
            THEN /\ Len(rows) = Len(left.rows) + Len(right.rows)
                 /\ \A row \in Range(both) \cup Range(rows) :
                        Occurrences(rows, row) = Occurrences(both, row)
                 /\ \A i, j \in DOMAIN rows :
                        i < j =>
                           \/ rows[i].meta.timestamp < rows[j].meta.timestamp
                           \/ /\ rows[i].meta.timestamp = rows[j].meta.timestamp
                              /\ rows[i].meta.line_number <= rows[j].meta.line_number
            ELSE rows = both

\* C12 witness: a sorting merge has moved a row of the right operand in
\* front of a row of the left operand that has the same timestamp and a
\* greater line number
C12_Witness ==
    /\ merged.status = "returned"
    /\ sort_by_timestamp
    /\ \E i \in DOMAIN left.rows, j \in DOMAIN right.rows :
          /\ left.rows[i].meta.timestamp = right.rows[j].meta.timestamp
          /\ left.rows[i].meta.line_number > right.rows[j].meta.line_number
    /\ merged.value.rows # left.rows \o right.rows

\* C13: the complete_header of a merge result is the conjunction of the
\* complete_header of the operands, and its could_not_fix_time (the
\* unresolved-time flag) is the disjunction of theirs
C13_MergedFlags ==
    merged.status = "returned" =>
        /\ merged.value.meta.complete_header
              = (left.meta.complete_header /\ right.meta.complete_header)
        /\ merged.value.could_not_fix_time
              = (left.could_not_fix_time \/ right.could_not_fix_time)

\* C13 witness: a merge has returned for a left operand with a complete
\* header and resolved times and a right operand with neither
C13_Witness ==
    /\ merged.status = "returned"
    /\ left.meta.complete_header
    /\ ~right.meta.complete_header
    /\ ~left.could_not_fix_time
    /\ right.could_not_fix_time
    /\ ~merged.value.meta.complete_header
    /\ merged.value.could_not_fix_time

----------------------------------------------------------------------------
(* Properties of the header and data sections *)

\* the step reads the next physical line, and it is not line 1
ReadsLine == line_count' = line_count + 1 /\ line_count >= 1

\* the step reads a line with a well formed tag while the header is complete
ReadsDataLine ==
    /\ ReadsLine
    /\ parser.complete_header
    /\ ~IsBlank(line')
    /\ LINE_TYPE_PATTERN(Head(line'))

\* the columns the record type of the data line being read was declared with
DeclaredColumns == parser.columns[removeprefix(Head(line'))]

\* the data line being read is of a record type a $COL line declared
ReadsDeclaredRow ==
    /\ ReadsDataLine
    /\ removeprefix(Head(line')) \in DOMAIN parser.columns

\* C14: a $DATA line read when complete_header is already true passes the
\* duplicate-$DATA anomaly through the gate without ending the parse, and
\* complete_header stays true; a first $DATA line that carries fields passes
\* an anomaly through the gate and still sets complete_header
C14_DuplicateDataReported ==
    [][(ReadsLine /\ Head(line') = ROW_DATA) =>
          /\ parser.complete_header =>
                /\ ("Duplicate " \o ROW_DATA \o " line.") \in parser'.warned_messages
                /\ parser'.complete_header
                /\ Running(parser')
          /\ (~parser.complete_header /\ Tail(line') # <<>>) =>
                /\ ("Unexpected " \o ROW_DATA \o " line with fields.")
                       \in parser'.warned_messages
                /\ parser'.complete_header
                /\ Running(parser')]_vars

\* C15: a data line of a record type that no $COL line declared passes the
\* anomaly "unexpected line type" through the gate, and the parse goes on
\* (or is ended by the gate), it is not ended by any other exception
C15_UndeclaredTypeReported ==
    [][(ReadsDataLine /\ removeprefix(Head(line')) \notin DOMAIN parser.columns) =>
          /\ ("Unexpected line type: '" \o Head(line') \o "'")
                 \in parser'.warned_messages
          /\ parser'.status \in {"parsing", "UnexpectedFormatError"}]_vars

\* C16: a data row with fewer fields than its record type declares, down to
\* no field at all, passes the "missing columns" anomaly through the gate
\* and is appended to rows with exactly the fields it supplies
C16_ShortRowAppended ==
    [][(ReadsDeclaredRow /\ Len(Tail(line')) < Len(DeclaredColumns)) =>
          LET supplied == {DeclaredColumns[i] : i \in 1..Len(Tail(line'))}
              absent == SelectSeq(ColumnOrder,
                                  LAMBDA c : c \in Range(DeclaredColumns) \ supplied)
          IN  /\ ("Missing columns: " \o ReprList(absent) \o ")")
                     \in parser'.warned_messages
              /\ Len(parser'.rows) = Len(parser.rows) + 1
              /\ DOMAIN parser'.rows[Len(parser'.rows)].values = supplied
              /\ parser'.rows[Len(parser'.rows)].meta.line_number = line_count']_vars

\* C17: a data row with more fields than its record type declares passes an
\* anomaly through the gate (suppressed, recorded, or fatal by the policy)
\* and the parse is not ended in any other way
C17_LongRowIsAnomaly ==
    [][(ReadsDeclaredRow /\ Len(Tail(line')) > Len(DeclaredColumns)) =>
          /\ parser'.status \in {"parsing", "UnexpectedFormatError"}
          /\ parser'.warned_messages # {}]_vars

C19_KnownFormatIffMagic ==
    (Finished(parser) /\ first_line # None) =>
        (parser.is_flysight2_file <=> first_line[1] = EXPECTED_HEADER)

\* C20 as claimed: in every state in which complete_header is true, columns
\* and units have the same key set
C20_ColumnsUnitsSameKeys ==
    parser.complete_header => DOMAIN parser.columns = DOMAIN parser.units

\* C20 amended: in every state the record types of units are record types of
\* columns; the two key sets may differ while complete_header is true, and
\* when a parse ends with complete_header true and different key sets, the
\* gate has been passed "Columns/ units mismatch." (both maps non-empty) or
\* "No units found." (units empty)
C20_MismatchIsReported ==
    /\ DOMAIN parser.units \subseteq DOMAIN parser.columns
    /\ (/\ Finished(parser)
        /\ parser.complete_header
        /\ DOMAIN parser.columns # DOMAIN parser.units) =>
           IF parser.units = EmptyDict
           THEN "No units found." \in parser.warned_messages
           ELSE "Columns/ units mismatch." \in parser.warned_messages

\* C20 witness: a parse has ended with a complete header in which one record
\* type has units and another one has columns only
C20_Witness ==
    /\ Finished(parser)
    /\ parser.complete_header
    /\ parser.units # EmptyDict
    /\ DOMAIN parser.columns # DOMAIN parser.units

----------------------------------------------------------------------------
(* Properties of the end of a parse *)

\* the step in which the loop of Parser.parse has ended and the result is
\* validated
EndsInput == line_count' = line_count /\ Running(parser) /\ ~Running(parser')

IsRaised(check) == check.holds

MessageOf(check) == check.message

\* the messages of the end-of-input conditions that hold of p, in the order
\* vars, columns, units, key sets, header, and in full mode rows, timestamps;
\* keys_differ is the condition on the key sets
EndOfInputMessages(o, p, keys_differ) ==
    LET metadata == << [holds |-> p.vars = EmptyDict,
                        message |-> "No $VAR metadata found."],
                       [holds |-> p.columns = EmptyDict,
                        message |-> "No columns found."],
                       [holds |-> p.units = EmptyDict,
                        message |-> "No units found."],
                       [holds |-> keys_differ,
                        message |-> "Columns/ units mismatch."],
                       [holds |-> ~p.complete_header,
                        message |-> "Incomplete metadata."] >>
        data == << [holds |-> p.rows = <<>>,
                    message |-> "No data rows found."],
                   [holds |-> p.times_are_invalid,
                    message |-> "No $TIME rows available to fix timestamps."] >>
        checks == IF o.metadata_only THEN metadata ELSE metadata \o data
        raised == SelectSeq(checks, IsRaised)
    IN  [i \in DOMAIN raised |-> raised[i].message]

\* what the lists of p gained to become the lists of q
NewWarningTexts(p, q) ==
    [i \in 1..(Len(q.warnings) - Len(p.warnings)) |->
        q.warnings[Len(p.warnings) + i].message]

NewIgnored(p, q) ==
    SubSeq(q.ignored_messages, Len(p.ignored_messages) + 1, Len(q.ignored_messages))

\* the end-of-input step passes exactly the messages to the gate, in order:
\* the suppressed ones are appended to the ignored list, the others to the
\* diagnostics, and nothing else is appended
EndReports(messages) ==
    LET IsSuppressed(m) == Suppressed(options, m)
        IsNotSuppressed(m) == ~Suppressed(options, m)
    IN  /\ Len(parser'.warnings) >= Len(parser.warnings)
        /\ Len(parser'.ignored_messages) >= Len(parser.ignored_messages)
        /\ NewWarningTexts(parser, parser') = SelectSeq(messages, IsNotSuppressed)
        /\ NewIgnored(parser, parser') = SelectSeq(messages, IsSuppressed)

\* C21 as claimed: the end-of-input validation raises one anomaly for each
\* condition that holds, in the order vars empty, columns empty, units empty,
\* key sets of columns and units differ, complete_header false, and when not
\* in metadata-only mode zero rows, then times still unresolved; none for a
\* condition that does not hold
C21_EndAnomaliesKeySetsDiffer ==
    [][EndsInput =>
          EndReports(EndOfInputMessages(options, parser,
                        DOMAIN parser.columns # DOMAIN parser.units))]_vars

\* C21 amended: the same, with the fourth condition being that columns and
\* units are both non-empty and their key sets differ
C21_EndAnomaliesInOrder ==
    [][EndsInput =>
          EndReports(EndOfInputMessages(options, parser,
                        /\ parser.columns # EmptyDict
                        /\ parser.units # EmptyDict
                        /\ DOMAIN parser.columns # DOMAIN parser.units))]_vars

\* C21 witness: a parse has ended with columns, without units and without
\* $DATA: "No units found." and "Incomplete metadata." are in the
\* diagnostics, in this order, and "Columns/ units mismatch." is not
C21_Witness ==
    /\ Finished(parser)
    /\ parser.columns # EmptyDict
    /\ parser.units = EmptyDict
    /\ \E i, j \in DOMAIN parser.warnings :
          /\ i < j
          /\ parser.warnings[i].message = "No units found."
          /\ parser.warnings[j].message = "Incomplete metadata."
    /\ "Columns/ units mismatch." \notin parser.warned_messages

\* the tags of the header section
HeaderTags == {"$VAR", "$COL", "$UNIT", "$DATA"}

\* the step reads, before any $DATA line, a line with a well formed tag that
\* is not a tag of the header section
ReadsTagBeforeData ==
    /\ ReadsLine
    /\ ~parser.complete_header
    /\ LINE_TYPE_PATTERN(Head(line'))
    /\ Head(line') \notin HeaderTags

\* the step passes the message through the gate once: a message passed before
\* changes neither list, a new one is appended to the ignored list when the
\* policy suppresses it and to the diagnostics when it does not
PassesOnce(message) ==
    /\ message \in parser'.warned_messages
    /\ Len(parser'.warnings) >= Len(parser.warnings)
    /\ Len(parser'.ignored_messages) >= Len(parser.ignored_messages)
    /\ NewWarningTexts(parser, parser') =
          IF message \in parser.warned_messages \/ Suppressed(options, message)
          THEN <<>> ELSE <<message>>
    /\ NewIgnored(parser, parser') =
          IF message \notin parser.warned_messages /\ Suppressed(options, message)
          THEN <<message>> ELSE <<>>

\* the end-of-input step of a file without $DATA passes "Incomplete
\* metadata." through the gate, and not the anomaly of unresolved times;
\* no_rows_reported tells whether it passes "No data rows found."
EndOfHeaderOnlyFile(no_rows_reported) ==
    (EndsInput /\ ~parser.complete_header) =>
        LET new == Range(NewWarningTexts(parser, parser'))
                       \cup Range(NewIgnored(parser, parser'))
        IN  /\ "Incomplete metadata." \in new
            /\ "No data rows found." \in new <=> no_rows_reported
            /\ "No $TIME rows available to fix timestamps." \notin parser'.warned_messages

\* while no $DATA line has been read, a line with a non-header tag passes
\* "Unexpected '<tag>' before $DATA" through the gate, once per distinct tag
\* and in the order of first occurrence, and there are no rows
TagsBeforeDataReported ==
    /\ ReadsTagBeforeData =>
          PassesOnce("Unexpected '" \o Head(line') \o "' before $DATA")
    /\ ~parser'.complete_header => parser'.rows = <<>>

\* C22 as claimed: in a file without $DATA every line with a non-header tag
\* raises "Unexpected '<tag>' before $DATA" once per distinct tag in the order
\* of first occurrence, no row is produced, and the end of the input reports
\* "Incomplete metadata." and "No data rows found." and not the anomaly of
\* unresolved times
C22_NoDataRowsAlwaysReported ==
    [][TagsBeforeDataReported /\ EndOfHeaderOnlyFile(TRUE)]_vars

\* C22 amended: the same, with "No data rows found." reported at the end of
\* the input exactly when the parse is not in metadata-only mode
C22_TagsBeforeDataReported ==
    [][TagsBeforeDataReported /\ EndOfHeaderOnlyFile(~options.metadata_only)]_vars

\* C22 witness: a parse of four lines without $DATA has ended; line 2 was a
\* $VBAT line, a later one a $BARO line and line 4 a $VBAT line again, and
\* the diagnostics are the two tag messages in this order, then the ones of
\* the end of the input
C22_Witness ==
    /\ Finished(parser)
    /\ ~parser.complete_header
    /\ line_count = 4
    /\ line = <<"$VBAT">>
    /\ Len(parser.warnings) = 7
    /\ parser.warnings[1] = [path |-> display_path, line |-> Some(2),
                             message |-> "Unexpected '$VBAT' before $DATA"]
    /\ parser.warnings[2].message = "Unexpected '$BARO' before $DATA"
    /\ parser.warnings[6].message = "Incomplete metadata."
    /\ parser.warnings[7].message = "No data rows found."

----------------------------------------------------------------------------
(* Properties of the timestamps *)

\* the call of parse is running, has returned or has raised
\* UnexpectedFormatError
NotCrashed(p) == Running(p) \/ Finished(p)

\* C23: with no configured offset, as long as no reference-time row has been
\* decoded every relative-time row has the GPS epoch as its datum and the GPS
\* epoch plus its own seconds as its timestamp; and times_are_invalid is true
\* exactly when there is a relative-time row and no reference-time row, while
\* the parse runs and when it has ended
C23_PlaceholderUntilReference ==
    (options.offset_datetime = None /\ NotCrashed(parser)) =>
        /\ parser.times_are_invalid <=>
              /\ \E i \in DOMAIN parser.rows : IsRelative(parser.rows[i])
              /\ FirstReference(parser.rows) = 0
        /\ FirstReference(parser.rows) = 0 =>
              \A i \in DOMAIN parser.rows :
                 IsRelative(parser.rows[i]) =>
                    /\ parser.rows[i].meta.offset_timestamp = Some(GPS_START_DATE)
                    /\ parser.rows[i].meta.timestamp =
                          GPS_START_DATE + parser.rows[i].values[TIME_COL].n

\* C23 witness: a parse without configured offset has ended with times still
\* unresolved: a row of 2.5 s has the timestamp of the GPS epoch plus 2.5 s,
\* and no reference-time row was decoded
C23_Witness ==
    /\ options.offset_datetime = None
    /\ Finished(parser)
    /\ parser.times_are_invalid
    /\ FirstReference(parser.rows) = 0
    /\ \E i \in DOMAIN parser.rows :
          /\ parser.rows[i].values[TIME_COL] = FloatV(2500)
          /\ parser.rows[i].meta.timestamp = GPS_START_DATE + 2500
          /\ parser.rows[i].meta.offset_timestamp = Some(GPS_START_DATE)

\* the step decodes a reference-time record: it reads a $TIME line of a
\* complete header and appends its row
DecodesReference ==
    /\ ReadsDataLine
    /\ Head(line') = "$TIME"
    /\ Running(parser')
    /\ Len(parser'.rows) = Len(parser.rows) + 1

\* the row the step has appended
AppendedRow == parser'.rows[Len(parser'.rows)]

\* GPS epoch + week * 7 days + time of week of a reference-time row, week
\* being the integer value of its field
ReferenceInstant(row) ==
    GPS_START_DATE + (row.values["week"].n \div 1000) * (7 * 24 * 3600 * 1000)
        + row.values["tow"].n

\* C24: for every decoded reference-time record, the offset datum the parser
\* computes from it plus the record's relative time is the GPS epoch plus
\* week * 7 days plus its time of week, and no step leaves the call by the
\* assertion of this identity
C24_OffsetIdentity ==
    [][/\ parser'.status # "AssertionError"
       /\ DecodesReference =>
             /\ parser'.current_offset_datetime # None
             /\ parser'.current_offset_datetime[1] + AppendedRow.values[TIME_COL].n
                   = ReferenceInstant(AppendedRow)]_vars

\* C24 witness: the reference-time record of relative time 4 s, time of week
\* 20 s and week 1 has been decoded after another one: the datum is one week
\* and 16 s after the GPS epoch
C24_Witness ==
    /\ Running(parser)
    /\ line = <<"$TIME", "4", "20", "1">>
    /\ Len(parser.rows) >= 2
    /\ parser.rows[Len(parser.rows)].meta.line_number = line_count
    /\ parser.rows[Len(parser.rows) - 1].meta.sensor_name = "TIME"
    /\ parser.current_offset_datetime = Some(604800000 + 16000)

\* the row before the one the step has appended
RowBefore == parser'.rows[Len(parser'.rows) - 1]

\* the step decodes a reference-time record of time of week 0, the row before
\* being a reference-time record of time of week 604799 s of the week before
CrossesWeek ==
    /\ DecodesReference
    /\ parser.rows # <<>>
    /\ RowBefore.meta.sensor_name = "TIME"
    /\ RowBefore.values["tow"].n = 604799 * 1000
    /\ AppendedRow.values["tow"].n = 0
    /\ AppendedRow.values["week"].n = RowBefore.values["week"].n + 1000

\* C25: of two consecutive reference-time rows with time of week 604799 in
\* week W and time of week 0 in week W + 1, the reference instants (datum
\* plus the row's own time) are one second apart; without configured offset
\* they are the timestamps of the two rows
C25_WeekRollover ==
    [][CrossesWeek =>
          /\ parser'.current_offset_datetime[1] + AppendedRow.values[TIME_COL].n
                = parser.current_offset_datetime[1] + RowBefore.values[TIME_COL].n
                     + 1000
          /\ options.offset_datetime = None =>
                AppendedRow.meta.timestamp = RowBefore.meta.timestamp + 1000]_vars

\* C25 witness: the last two rows are reference-time rows of time of week
\* 604799 in week 2 and time of week 0 in week 3, with timestamps of three
\* weeks less a second and three weeks after the GPS epoch
C25_Witness ==
    /\ Running(parser)
    /\ options.offset_datetime = None
    /\ Len(parser.rows) >= 2
    /\ LET last == parser.rows[Len(parser.rows)]
           before == parser.rows[Len(parser.rows) - 1]
       IN  /\ before.meta.sensor_name = "TIME"
           /\ last.meta.sensor_name = "TIME"
           /\ before.values["tow"] = IntV(604799000)
           /\ before.values["week"] = IntV(2000)
           /\ last.values["tow"] = IntV(0)
           /\ last.values["week"] = IntV(3000)
           /\ before.meta.timestamp = 3 * MsPerWeek - 1000
           /\ last.meta.timestamp = 3 * MsPerWeek

\* the time value of the row is a text that decoded as an absolute time
IsAbsolute(row) ==
    /\ row.values[TIME_COL].k = "str"
    /\ StrptimeAccepts(StripSign(row.values[TIME_COL].s))

\* C26: a row whose time text has the "-" after the decimal point has the
\* instant of the text without the "-" less twice its fraction as timestamp
\* (00:00:28.-001 gives 00:00:27.999); a row whose time text has no "-" has
\* the instant the text denotes
C26_FractionSign ==
    \A i \in DOMAIN parser.rows :
       IsAbsolute(parser.rows[i]) =>
          LET time_value == parser.rows[i].values[TIME_COL].s
              unsigned == Strptime(StripSign(time_value))
          IN  parser.rows[i].meta.timestamp =
                 IF NegativeAfterDecimalPoint(time_value)
                 THEN unsigned.instant - 2 * unsigned.fraction
                 ELSE unsigned.instant

\* C26 witness: a parse has produced a row of the time text 00:00:28.-001 with
\* the timestamp 00:00:27.999 and a row of the time text 00:00:05.100 with
\* the timestamp 00:00:05.100
C26_Witness ==
    /\ \E i \in DOMAIN parser.rows :
          /\ parser.rows[i].values[TIME_COL] = StrV("1980-01-06T00:00:28.-001Z")
          /\ parser.rows[i].meta.timestamp = 27999
    /\ \E i \in DOMAIN parser.rows :
          /\ parser.rows[i].values[TIME_COL] = StrV("1980-01-06T00:00:05.100Z")
          /\ parser.rows[i].meta.timestamp = 5100

----------------------------------------------------------------------------
(* Properties of whole files *)

\* the call of parse has ended, by a return or by any exception
Ended(p) == p.status \notin {"new", "parsing"}

\* C27: the full parse of a well formed track file ($VAR lines, one $COL with
\* its $UNIT, $DATA, then N >= 1 rows of absolute time) returns, in strict mode
\* as well, with complete_header true, N rows in the order and with the
\* numbers of their lines, no datum on any row, times_are_invalid false and
\* no message passed to the gate
C27_TrackFileParses ==
    (/\ file_kind = "track"
     /\ ~options.metadata_only
     /\ line_count > Len(TrackHeader)
     /\ Ended(parser)) =>
        /\ parser.status = "returned"
        /\ parser.complete_header
        /\ Len(parser.rows) = line_count - Len(TrackHeader)
        /\ \A i \in DOMAIN parser.rows :
              /\ parser.rows[i].meta.line_number = Len(TrackHeader) + i
              /\ parser.rows[i].meta.sensor_name = "GNSS"
              /\ parser.rows[i].meta.offset_timestamp = None
        /\ ~parser.times_are_invalid
        /\ parser.warnings = <<>>
        /\ parser.warned_messages = {}

\* C27 witness: a strict parse of a track file of three rows has returned
\* three rows, the last one from the last line
C27_Witness ==
    /\ file_kind = "track"
    /\ options.strict
    /\ ~options.metadata_only
    /\ parser.status = "returned"
    /\ line_count = Len(TrackHeader) + 3
    /\ Len(parser.rows) = 3
    /\ parser.rows[3].meta.line_number = line_count
    /\ parser.rows[3].meta.offset_timestamp = None

\* C28: a step appends at most one row, the row of the line it reads, and the
\* line number of the row is the position of that line in the input, blank
\* lines counted; the rows of a parser have strictly increasing line numbers
\* in row order
C28_LineNumberIsPosition ==
    [][/\ Len(parser'.rows) > Len(parser.rows) =>
             /\ Len(parser'.rows) = Len(parser.rows) + 1
             /\ line_count' = line_count + 1
             /\ AppendedRow.meta.line_number = line_count'
       /\ \A i, j \in DOMAIN parser'.rows :
             i < j => parser'.rows[i].meta.line_number
                         < parser'.rows[j].meta.line_number]_vars

\* C28 witness: the first row of a file comes from line 11, the second line
\* after the nine lines of the header, and no message has been passed to the
\* gate: line 10 was blank
C28_Witness ==
    /\ file_kind = "damaged"
    /\ parser.warned_messages = {}
    /\ parser.rows # <<>>
    /\ parser.rows[1].meta.line_number = Len(SensorHeader) + 2
    /\ line_count = Len(SensorHeader) + 2

----------------------------------------------------------------------------
(* Properties of a batch of files *)

\* the step processes a file that fails with a format anomaly in strict mode,
\* and it is not the last file of the batch
FailsInStrictMode ==
    /\ program.status = "files"
    /\ program.strict
    /\ program.index + 1 < Len(program.paths)
    /\ program.paths[program.index + 1] = "malformed"
    /\ program' # program

\* the loop goes on to the next file, the failed one left out of the merge
GoesOnToNextFile ==
    /\ program'.status = "files"
    /\ program'.index = program.index + 1
    /\ program'.all_parsed = program.all_parsed

\* C29 as claimed: when a file of a batch fails with an unsuppressed format
\* anomaly in strict mode, only that file is aborted and the remaining files
\* of the batch are still processed
C29_BatchGoesOnAfterFormatError ==
    [][FailsInStrictMode => GoesOnToNextFile]_vars

\* C29 amended: when a file of a batch fails with an unsuppressed format
\* anomaly in strict mode, the remaining files of the batch are still
\* processed if continue_on_error is set; if it is not, the batch ends at that
\* file with FileProcessingError
C29_BatchGoesOnIffContinueOnError ==
    [][FailsInStrictMode =>
          IF program.ui.continue_on_error
          THEN GoesOnToNextFile
          ELSE /\ program'.status = "FileProcessingError"
               /\ program'.index = program.index
               /\ program'.all_parsed = program.all_parsed]_vars

\* C29 witness: in a strict batch with continue_on_error the first file has
\* failed with a format anomaly and the second one, well formed, has been
\* parsed after it
C29_Witness ==
    /\ program.status = "files"
    /\ program.strict
    /\ program.ui.continue_on_error
    /\ Len(program.paths) = 3
    /\ program.paths[1] = "malformed"
    /\ program.paths[2] = "good"
    /\ program.index = 2
    /\ program.all_parsed = <<2>>

----------------------------------------------------------------------------
(* Properties of the non-strict parse *)

\* C30: in non-strict mode the call of parse never ends by an exception:
\* whatever the lines are, it is running or has returned
C30_NonStrictAlwaysReturns ==
    ~options.strict => parser.status \in {"new", "parsing", "returned"}

----------------------------------------------------------------------------
(* Properties of the backfill *)

\* the step reads the first reference-time record of a file whose rows so far
\* are relative-time rows still unresolved and at least one absolute-time row
ReadsFirstReferenceAfterAbsolute ==
    /\ ReadsDataLine
    /\ Head(line') = "$TIME"
    /\ parser.times_are_invalid
    /\ \E i \in DOMAIN parser.rows : ~IsRelative(parser.rows[i])

\* the step leaves every absolute-time row as it was
KeepsAbsoluteRows ==
    \A i \in DOMAIN parser.rows :
       ~IsRelative(parser.rows[i]) =>
          /\ i \in DOMAIN parser'.rows
          /\ parser'.rows[i] = parser.rows[i]

\* C31: in a file that interleaves absolute-time rows and relative-time rows
\* before the first reference record, decoding that record completes normally
\* (the parse goes on and the record's row is appended) and every
\* absolute-time row keeps its timestamp and its absent datum
C31_BackfillKeepsAbsoluteRows ==
    [][ReadsFirstReferenceAfterAbsolute =>
          /\ Running(parser')
          /\ Len(parser'.rows) = Len(parser.rows) + 1
          /\ KeepsAbsoluteRows]_vars

\* no reference-time row lies between positions i and j of rows, j excluded
\* and i excluded
NoReferenceBetween(rows, i, j) ==
    \A k \in (i + 1)..(j - 1) : rows[k].meta.sensor_name # "TIME"

\* C32: with no configured offset, the row of a reference-time record and
\* every relative-time row after it up to the next reference-time row have the
\* datum computed from that record as offset_timestamp and that datum plus
\* their own relative seconds as timestamp
C32_DatumActiveUntilNextReference ==
    options.offset_datetime = None =>
        \A i \in DOMAIN parser.rows :
           parser.rows[i].meta.sensor_name = "TIME" =>
              \A j \in i..Len(parser.rows) :
                 (/\ IsRelative(parser.rows[j])
                  /\ j > i => parser.rows[j].meta.sensor_name # "TIME"
                  /\ NoReferenceBetween(parser.rows, i, j)) =>
                     /\ parser.rows[j].meta.offset_timestamp
                           = Some(DatumOf(parser.rows[i]))
                     /\ parser.rows[j].meta.timestamp
                           = DatumOf(parser.rows[i]) + parser.rows[j].values[TIME_COL].n

\* C32 witness: after the reference record of relative time 3 s, time of week
\* 10 s, week 1, a row of 2.5 s has been produced, and then a reference record
\* with another datum: the row of 2.5 s has the datum of the first record
C32_Witness ==
    /\ options.offset_datetime = None
    /\ Len(parser.rows) = 3
    /\ parser.rows[1].values = [time |-> IntV(3000), tow |-> IntV(10000), week |-> IntV(1000)]
    /\ parser.rows[2].values[TIME_COL] = FloatV(2500)
    /\ parser.rows[2].meta.offset_timestamp = Some(MsPerWeek + 7000)
    /\ parser.rows[2].meta.timestamp = MsPerWeek + 9500
    /\ parser.rows[3].meta.sensor_name = "TIME"
    /\ parser.rows[3].meta.offset_timestamp = Some(MsPerWeek + 16000)

\* C33: with a configured offset, in every state every relative-time row,
\* reference-time rows included, has the configured offset as offset_timestamp
\* and the configured offset plus its own relative seconds as timestamp, and
\* times_are_invalid is false; no step rewrites a row produced before it
C33_ConfiguredOffsetRules ==
    [][options.offset_datetime # None =>
          /\ ~parser'.times_are_invalid
          /\ \A i \in DOMAIN parser'.rows :
                IsRelative(parser'.rows[i]) =>
                   /\ parser'.rows[i].meta.offset_timestamp = options.offset_datetime
                   /\ parser'.rows[i].meta.timestamp
                         = options.offset_datetime[1]
                              + parser'.rows[i].values[TIME_COL].n
          /\ \A i \in DOMAIN parser.rows :
                /\ i \in DOMAIN parser'.rows
                /\ parser'.rows[i] = parser.rows[i]]_vars

\* C33 witness: with a configured offset a row of 1 s, a reference record and
\* a row of 2.5 s have been produced; the reference record's datum is held by
\* the parser and the rows before and after it have the configured offset
C33_Witness ==
    /\ options.offset_datetime = Some(ConfiguredOffset)
    /\ Len(parser.rows) = 3
    /\ parser.rows[1].values[TIME_COL] = IntV(1000)
    /\ parser.rows[1].meta.timestamp = ConfiguredOffset + 1000
    /\ parser.rows[2].meta.sensor_name = "TIME"
    /\ parser.rows[2].meta.offset_timestamp = Some(ConfiguredOffset)
    /\ parser.current_offset_datetime # None
    /\ parser.current_offset_datetime # Some(ConfiguredOffset)
    /\ parser.rows[3].values[TIME_COL] = FloatV(2500)
    /\ parser.rows[3].meta.timestamp = ConfiguredOffset + 2500

\* the step changes a row that existed before it
RewritesARow ==
    \E i \in DOMAIN parser.rows :
       i \in DOMAIN parser'.rows /\ parser'.rows[i] # parser.rows[i]

\* the step decodes the first reference-time record of the file
DecodesFirstReference ==
    /\ FirstReference(parser.rows) = 0
    /\ Running(parser')
    /\ FirstReference(parser'.rows) = Len(parser.rows) + 1

\* C34: times_are_invalid is cleared only by the step that decodes the first
\* reference-time record, and once a reference-time row exists it is false for
\* good; rows are rewritten only in that step, which gives every row before
\* the first reference record the datum of that record, and no step after it
\* changes a row
C34_BackfillRunsOnce ==
    [][/\ (parser.times_are_invalid /\ ~parser'.times_are_invalid) =>
             DecodesFirstReference
       /\ FirstReference(parser.rows) > 0 =>
             /\ ~parser.times_are_invalid
             /\ ~parser'.times_are_invalid
             /\ ~RewritesARow
       /\ (RewritesARow /\ Running(parser')) =>
             /\ DecodesFirstReference
             /\ parser.times_are_invalid
             /\ \A i \in DOMAIN parser.rows :
                   /\ parser.rows[i].meta.offset_timestamp = Some(GPS_START_DATE)
                   /\ parser'.rows[i].meta.offset_timestamp
                         = parser'.current_offset_datetime]_vars

\* C34 witness: a row of 1 s was rewritten at the first reference record
\* (datum one week and 7 s) and has kept that datum while a second reference
\* record has moved the parser's datum to one week and 16 s
C34_Witness ==
    /\ options.offset_datetime = None
    /\ ~parser.times_are_invalid
    /\ Len(parser.rows) >= 3
    /\ parser.rows[1].values[TIME_COL] = IntV(1000)
    /\ parser.rows[1].meta.offset_timestamp = Some(MsPerWeek + 7000)
    /\ parser.rows[2].meta.sensor_name = "TIME"
    /\ parser.rows[3].meta.sensor_name = "TIME"
    /\ parser.current_offset_datetime = Some(MsPerWeek + 16000)

----------------------------------------------------------------------------
(* Properties of the header once it is complete *)

\* C35: once complete_header is true no step makes it false and no step
\* changes vars, columns or units, whatever line is read: $VAR, $COL and
\* $UNIT lines after $DATA do not modify the metadata
C35_HeaderFrozenAfterData ==
    [][parser.complete_header =>
          /\ parser'.complete_header
          /\ parser'.vars = parser.vars
          /\ parser'.columns = parser.columns
          /\ parser'.units = parser.units]_vars

\* C35 witness: line 2 was $DATA and line 3 a $VAR line with a key and a
\* value; vars is still empty
C35_Witness ==
    /\ line_count = 3
    /\ line = <<"$VAR", "DEVICE_ID", "0033">>
    /\ parser.complete_header
    /\ parser.vars = EmptyDict
    /\ parser.columns = EmptyDict

----------------------------------------------------------------------------
(* Properties of the first line *)

FirstLineMismatchText == "First line does not match '$FLYS,1'"

\* C36: the step that reads physical line 1 passes the first-line-mismatch
\* anomaly through the gate exactly when the line is not the magic token, a
\* blank line included, and no step that reads a later line or ends the
\* parse passes it
C36_MagicCheckedOnLineOne ==
    [][parser' # parser =>
          (FirstLineMismatchText \in parser'.warned_messages
              <=> \/ FirstLineMismatchText \in parser.warned_messages
                  \/ /\ line_count = 0
                     /\ line_count' = 1
                     /\ line' # <<"$FLYS", "1">>)]_vars

----------------------------------------------------------------------------
(* Properties of StringSelection *)

AskedAbout == selection.status = "matched"

\* the string as the selection compares it
Candidate == _normalize(selection.self.case_insensitive, selection.column)

AmongExcludeLiterals ==
    /\ selection.self.exclude_values # None
    /\ Candidate \in selection.self.exclude_values[1]

MissingFromIncludeLiterals ==
    /\ selection.self.include_values # None
    /\ Candidate \notin selection.self.include_values[1]

SomeExcludePatternMatches ==
    /\ selection.self.exclude_patterns # None
    /\ \E x \in selection.self.exclude_patterns[1] : Pattern_match(x, Candidate)

NoIncludePatternMatches ==
    /\ selection.self.include_patterns # None
    /\ \A x \in selection.self.include_patterns[1] : ~Pattern_match(x, Candidate)

\* C37: matches answers false when the string is among the exclude literals,
\* or include literals are set and it is not among them, or an exclude pattern
\* matches it, or include patterns are set and none matches it, and true
\* otherwise; so an excluded string is never selected, whatever the include
\* filters say, and an include list that is set but empty selects nothing
C37_MatchesDecisionOrder ==
    AskedAbout =>
        /\ selection.result =
              Some(~ \/ AmongExcludeLiterals
                     \/ MissingFromIncludeLiterals
                     \/ SomeExcludePatternMatches
                     \/ NoIncludePatternMatches)
        /\ AmongExcludeLiterals \/ SomeExcludePatternMatches
              => selection.result = Some(FALSE)
        /\ \/ selection.self.include_values = Some({})
           \/ selection.self.include_patterns = Some({})
              => selection.result = Some(FALSE)

\* C37 witness: a string that is among the include literals and matched by an
\* exclude pattern has been asked about and is not selected
C37_Witness ==
    /\ AskedAbout
    /\ selection.column = "a"
    /\ selection.args.include_values = Some({"a"})
    /\ selection.args.exclude_patterns = Some({"a"})
    /\ selection.args.exclude_values = None
    /\ selection.result = Some(FALSE)


\* the filter argument written in lower case
LowerFilter(filter) ==
    IF filter = None THEN None ELSE Some({Lower(x) : x \in filter[1]})

\* the arguments of a selection written in lower case
LowerArgs(args) ==
    [case_insensitive |-> args.case_insensitive,
     exclude_values |-> LowerFilter(args.exclude_values),
     include_values |-> LowerFilter(args.include_values),
     exclude_patterns |-> LowerFilter(args.exclude_patterns),
     include_patterns |-> LowerFilter(args.include_patterns)]

\* C38: with case-insensitivity enabled the answer of matches is the answer
\* given for the lower-case variant of the string by the selection whose
\* literals and patterns are written in lower case, and so it is the same for
\* every case variant of the string, the literals and the patterns
C38_SelectionIgnoresCase ==
    AskedAbout /\ selection.args.case_insensitive =>
        selection.result =
            Some(matches(StringSelection(LowerArgs(selection.args)),
                         Lower(selection.column)))

----------------------------------------------------------------------------
(* Properties of the merge with the operands exchanged *)

\* C39: when a merge with sorting has returned, the merge of the same two
\* files with the operands exchanged, when it returns, yields the same
\* sequence of rows, rows of the two files with equal keys included
C39_SortedMergeCommutes ==
    merged.status = "returned" /\ sort_by_timestamp =>
        LET exchanged == ParsedCSV_merge_with(right, left, TRUE, allow_vars_mismatch)
        IN  exchanged.status = "returned" => exchanged.value.rows = merged.value.rows

====
